---- MODULE Spec2Model ----
(***************************************************************************)
(* A model of the 3BandEQ plugin: the filter chains of the processor and   *)
(* of the response-curve view, the single-producer/single-consumer Fifo    *)
(* built on juce::AbstractFifo, and the parametersChanged flag of the      *)
(* response-curve view.                                                    *)
(***************************************************************************)
EXTENDS Integers, Sequences, FiniteSets, TLC

VARIABLES
    heap,       \* coefficient objects: object id -> coefficient values
    chain,      \* chain id -> stage -> [ref, byp, z]
    lastOp,     \* the operation that produced the current state, with its inputs
    nOps,       \* the number of operations performed so far
    buffers,    \* Fifo::buffers: slot -> item
    validStart, \* AbstractFifo::validStart, the read position
    validEnd,   \* AbstractFifo::validEnd, the write position
    prod,       \* the producer thread: its position in Fifo::push and its locals
    cons,       \* the consumer thread: its position in Fifo::pull and its locals
    hist,       \* history of the Fifo: the pushes and pulls that have completed
    params,     \* APVTS: parameter id -> raw parameter value
    sampleRate, \* AudioProcessor::getSampleRate()
    parametersChanged,  \* ResponseCurve::parametersChanged
    timer,      \* the message thread in ResponseCurve::timerCallback
    host,       \* the threads that change parameters
    nChanges,   \* the number of parameter changes so far
    audio,      \* the thread in prepareToPlay / processBlock: position and locals
    buffer,     \* the AudioBuffer handed to processBlock: channel -> samples
    scsf,       \* leftChannelFIFO and rightChannelFIFO: the fields of each
    upd,        \* the call of SingleChannelSampleFifo::update in progress
    fft,        \* leftChannelFFTDataGenerator: order, fftData, fftDataFIFO
    pathGen,    \* pathGenerator: the path last pushed into pathFIFO, the number
                \* of paths in it
    persist,    \* the MemoryBlock of getStateInformation and what was saved
    bus,        \* the bus layout of the processor and the host's last query
    view        \* a ResponseCurve's lifetime: listeners, timer, deliveries

chainVars == <<heap, chain>>

fifoVars == <<buffers, validStart, validEnd, prod, cons, hist>>

paramVars == <<params, sampleRate>>

flagVars == <<parametersChanged, timer, host, nChanges>>

vars == <<heap, chain, lastOp, nOps, buffers, validStart, validEnd, prod, cons, hist,
          params, sampleRate, parametersChanged, timer, host, nChanges, audio, buffer,
          scsf, upd, fft, pathGen, persist, bus, view>>

procVars == <<audio, buffer>>

scsfVars == <<scsf, upd>>

analyzerVars == <<fft, pathGen>>

hostVars == <<persist, bus, view>>

-----------------------------------------------------------------------------
(* enum Slope, enum ChainPositions *)

SLOPE_12 == 0
SLOPE_24 == 1
SLOPE_36 == 2
SLOPE_48 == 3

Slopes == {SLOPE_12, SLOPE_24, SLOPE_36, SLOPE_48}

LowCut == 0
Peak == 1
HighCut == 2

\* the four Filter links of a CutFilter
Sections == 0..3

\* MonoChain = ProcessorChain<CutFilter, Filter, CutFilter>: its Filter objects,
\* each named <<position in the MonoChain, index in the CutFilter>>
Stages ==
    {<<LowCut, i>> : i \in Sections} \cup {<<Peak, 0>>} \cup {<<HighCut, i>> : i \in Sections}

\* leftChain and rightChain of the processor, monoChain of the ResponseCurve
ChainIds == {"left", "right", "mono"}

-----------------------------------------------------------------------------
(* Coefficient objects.  A Filter holds a reference-counted pointer to a    *)
(* Coefficients object; the design functions return freshly allocated       *)
(* objects.  An object id is <<owner, n>>.                                  *)

\* the object a Filter allocates for itself when it is constructed
OwnObj(c, st) == <<c, 10 * st[1] + st[2]>>

\* the objects a design call returns: index i of a cut-filter array, 4 for the peak
TmpObj(i) == <<"tmp", i>>

ObjIds == {OwnObj(c, st) : c \in ChainIds, st \in Stages} \cup {TmpObj(i) : i \in 0..4}

\* the coefficients of a newly constructed Filter (pass-through)
Unity == <<"unity", 0, 0, 0, 0>>

\* a frequency parameter takes values in 20..20000; the model uses these
FreqValues == {20, 20000}

SampleRates == {44100, 48000}

\* what an index beyond the end of a coefficient array refers to: no object
NoObject == <<"none", 0, 0, 0, 0>>

\* designIIRHighpassHighOrderButterworthMethod / ...Lowpass...: for an even order
\* the cascade has order/2 second-order sections; section i is named by the
\* inputs of the design and its index
Butterworth(kind, freq, sr, order) ==
    [i \in 1..(order \div 2) |-> <<kind, freq, order, i - 1, sr>>]

\* an order that leaves out the "+ 1"
makeLowCutFilterOrderTwiceSlope(cs, sr) ==
    LET lowCutFilterOrder == 2 * cs.lowCutSlope
    IN  Butterworth("HP", cs.lowCutFreq, sr, lowCutFilterOrder)

makeLowCutFilter(cs, sr) ==
    LET lowCutFilterOrder == 2 * (cs.lowCutSlope + 1)
    IN  Butterworth("HP", cs.lowCutFreq, sr, lowCutFilterOrder)

\* an order computed as 2 * slope + 1
makeHighCutFilterOddOrder(cs, sr) ==
    LET highCutFilterOrder == 2 * cs.highCutSlope + 1
    IN  Butterworth("LP", cs.highCutFreq, sr, highCutFilterOrder)

makeHighCutFilter(cs, sr) ==
    LET highCutFilterOrder == 2 * (cs.highCutSlope + 1)
    IN  Butterworth("LP", cs.highCutFreq, sr, highCutFilterOrder)

\* the heap after a design call returned `coeffs` (a sequence of coefficient
\* values) in newly allocated objects TmpObj(0) .. TmpObj(Len(coeffs) - 1)
Allocate(h, coeffs) ==
    [o \in ObjIds |->
        IF o[1] = "tmp" /\ o[2] < 4
        THEN IF o[2] < Len(coeffs) THEN coeffs[o[2] + 1] ELSE NoObject
        ELSE h[o]]

-----------------------------------------------------------------------------
(* Operations on a chain.  A memory m is [heap |-> .., chain |-> ..].       *)

setBypassed(m, c, st, b) ==
    [m EXCEPT !.chain[c][st].byp = b]

\* *old = *replacement: the values are copied into the object `old` points to
updateCoefficients(m, c, st, replacement) ==
    [m EXCEPT !.heap[m.chain[c][st].ref] = m.heap[replacement]]

\* updateFilterComponent<FilterComponentIndex>(chain, coefficients)
updateFilterComponent(m, c, pos, FilterComponentIndex) ==
    setBypassed(updateCoefficients(m, c, <<pos, FilterComponentIndex>>,
                                   TmpObj(FilterComponentIndex)),
                c, <<pos, FilterComponentIndex>>, FALSE)

\* a switch whose cases end in break: each slope updates its own section only
updateCutFilterBreak(m, c, pos, slope) ==
    LET b0 == setBypassed(m, c, <<pos, 0>>, TRUE)
        b1 == setBypassed(b0, c, <<pos, 1>>, TRUE)
        b2 == setBypassed(b1, c, <<pos, 2>>, TRUE)
        b3 == setBypassed(b2, c, <<pos, 3>>, TRUE)
    IN  updateFilterComponent(b3, c, pos, slope)

\* updateCutFilter(filter, coefficients, slope): the switch has no break, so
\* control entering at the case of `slope` falls through every later case
updateCutFilter(m, c, pos, slope) ==
    LET b0 == setBypassed(m, c, <<pos, 0>>, TRUE)
        b1 == setBypassed(b0, c, <<pos, 1>>, TRUE)
        b2 == setBypassed(b1, c, <<pos, 2>>, TRUE)
        b3 == setBypassed(b2, c, <<pos, 3>>, TRUE)
        c48 == IF slope = SLOPE_48 THEN updateFilterComponent(b3, c, pos, 3) ELSE b3
        c36 == IF slope \in {SLOPE_48, SLOPE_36}
               THEN updateFilterComponent(c48, c, pos, 2) ELSE c48
        c24 == IF slope \in {SLOPE_48, SLOPE_36, SLOPE_24}
               THEN updateFilterComponent(c36, c, pos, 1) ELSE c36
        c12 == IF slope \in {SLOPE_48, SLOPE_36, SLOPE_24, SLOPE_12}
               THEN updateFilterComponent(c24, c, pos, 0) ELSE c24
    IN  c12

\* the bypass flags of the four sections of a cut filter
Bypass(ch, c, pos) == [i \in Sections |-> ch[c][<<pos, i>>].byp]

\* the coefficient values of the four sections of a cut filter
CoefOf(h, ch, c, st) == h[ch[c][st].ref]

-----------------------------------------------------------------------------
(* Initial values *)

\* every Filter is constructed with its own pass-through coefficient object,
\* not bypassed, with cleared delay registers
NewChain(c) == [st \in Stages |-> [ref |-> OwnObj(c, st), byp |-> FALSE, z |-> <<>>]]

NewHeap == [o \in ObjIds |-> IF o[1] = "tmp" THEN NoObject ELSE Unity]

NoOp == [op |-> "none"]

ChainInit ==
    /\ heap = NewHeap
    /\ chain = [c \in ChainIds |-> NewChain(c)]

-----------------------------------------------------------------------------
(* The parameters (createParameterLayout) and ChainSettings                 *)

\* the parameter ids, in the order getChainSettings reads them
ParamOrder ==
    <<"LowCut_Freq", "LowCut_Slope", "HighCut_Freq", "HighCut_Slope",
      "Peak_Freq", "Peak_Gain", "Peak_Q">>

ParamIds == {ParamOrder[i] : i \in 1..Len(ParamOrder)}

\* the ChainSettings field each parameter is loaded into
FieldOf(id) ==
    CASE id = "LowCut_Freq" -> "lowCutFreq"
      [] id = "LowCut_Slope" -> "lowCutSlope"
      [] id = "HighCut_Freq" -> "highCutFreq"
      [] id = "HighCut_Slope" -> "highCutSlope"
      [] id = "Peak_Freq" -> "peakFreq"
      [] id = "Peak_Gain" -> "peakGain_dB"
      [] id = "Peak_Q" -> "peakQ"

\* the default value of each parameter; Peak_Q is in hundredths
ParamDefault ==
    [id \in ParamIds |->
        CASE id = "LowCut_Freq" -> 20
          [] id = "LowCut_Slope" -> 0
          [] id = "HighCut_Freq" -> 20000
          [] id = "HighCut_Slope" -> 0
          [] id = "Peak_Freq" -> 750
          [] id = "Peak_Gain" -> 0
          [] id = "Peak_Q" -> 100]

\* the values of each parameter used in the model, within its declared range
ParamValues(id) ==
    CASE id \in {"LowCut_Freq", "HighCut_Freq"} -> FreqValues
      [] id \in {"LowCut_Slope", "HighCut_Slope"} -> Slopes
      [] id = "Peak_Freq" -> {750, 20000}
      [] id = "Peak_Gain" -> {0, 2400}
      [] id = "Peak_Q" -> {100, 1000}

\* struct ChainSettings, default member initialisers
DefaultChainSettings ==
    [lowCutFreq |-> 0, highCutFreq |-> 0, lowCutSlope |-> SLOPE_12,
     highCutSlope |-> SLOPE_12, peakFreq |-> 0, peakGain_dB |-> 0, peakQ |-> 100]

\* getChainSettings(APVTS), all seven loads
getChainSettings(ps) ==
    [lowCutFreq |-> ps["LowCut_Freq"], lowCutSlope |-> ps["LowCut_Slope"],
     highCutFreq |-> ps["HighCut_Freq"], highCutSlope |-> ps["HighCut_Slope"],
     peakFreq |-> ps["Peak_Freq"], peakGain_dB |-> ps["Peak_Gain"],
     peakQ |-> ps["Peak_Q"]]

\* one load of getChainSettings: settings.<field> = APVTS.getRawParameterValue(id)->load()
LoadParam(cs, ps, id) == [cs EXCEPT ![FieldOf(id)] = ps[id]]

\* IIR::Coefficients::makePeakFilter(sampleRate, peakFreq, peakQ, gain): the
\* coefficients are named by the inputs of the design
PeakDesign(sr, freq, q, gain_dB) == <<"peak", freq, q, gain_dB, sr>>

\* makePeakFilter(chainSettings, sampleRate)
makePeakFilter(cs, sr) == <<PeakDesign(sr, cs.peakFreq, cs.peakQ, cs.peakGain_dB)>>

\* the heap after makePeakFilter returned a newly allocated object, TmpObj(4)
AllocatePeak(h, coeffs) == [h EXCEPT ![TmpObj(4)] = coeffs[1]]

\* no call of prepareToPlay or processBlock yet
AudioInit ==
    /\ audio = [fn |-> "none", pc |-> "idle", k |-> 1, cs |-> DefaultChainSettings,
                prepared |-> FALSE, n |-> 0, allocs |-> 0,
                sec |-> <<>>]
    /\ buffer = [ch \in 0..1 |-> <<>>]

ParamInit ==
    /\ params = ParamDefault
    /\ sampleRate = 44100

-----------------------------------------------------------------------------
(* ResponseCurve: the parametersChanged flag, timerCallback and updateChain *)

\* ResponseCurve::updateChain after its getChainSettings: the peak filter, the
\* low cut filter and the high cut filter of monoChain
updateChain(m, cs, sr) ==
    LET m0 == [m EXCEPT !.heap = AllocatePeak(m.heap, makePeakFilter(cs, sr))]
        m1 == updateCoefficients(m0, "mono", <<Peak, 0>>, TmpObj(4))
        m2 == [m1 EXCEPT !.heap = Allocate(m1.heap, makeLowCutFilter(cs, sr))]
        m3 == updateCutFilter(m2, "mono", LowCut, cs.lowCutSlope)
        m4 == [m3 EXCEPT !.heap = Allocate(m3.heap, makeHighCutFilter(cs, sr))]
        m5 == updateCutFilter(m4, "mono", HighCut, cs.highCutSlope)
    IN  m5

\* a listener that leaves the flag as it is
parameterValueChangedNoSet(flag) == flag

\* ResponseCurve::parameterValueChanged: parametersChanged.set(true)
parameterValueChanged(flag) == TRUE

\* a compare-and-set that stores the new value whatever the old one was
compareAndSetBoolUnconditional(value, newValue, valueToCompare) ==
    [ok |-> TRUE, value |-> newValue]

\* juce::Atomic<bool>::compareAndSetBool(newValue, valueToCompare)
compareAndSetBool(value, newValue, valueToCompare) ==
    [ok |-> value = valueToCompare,
     value |-> IF value = valueToCompare THEN newValue ELSE value]

\* parameters are changed by the host on the audio thread and by another thread
HostThreads == {"audio", "other"}

\* the values the threads give to a parameter in runs of the ResponseCurve
ChangedValues(id) ==
    IF id \in {"LowCut_Slope", "HighCut_Slope"} THEN {SLOPE_12, SLOPE_48}
    ELSE ParamValues(id)

\* the number of parameter changes in a run
MaxChanges == 2

\* the state after the ResponseCurve constructor: listening to every parameter,
\* updateChain run once, the timer started
FlagInit ==
    /\ parametersChanged = FALSE
    /\ timer = [pc |-> "idle", k |-> 1, cs |-> getChainSettings(ParamDefault),
                applied |-> getChainSettings(ParamDefault), repaints |-> 0]
    /\ host = [h \in HostThreads |-> [pc |-> "idle", id |-> "Peak_Q"]]
    /\ nChanges = 0

FlagChainInit ==
    LET m == updateChain([heap |-> NewHeap, chain |-> [c \in ChainIds |-> NewChain(c)]],
                         getChainSettings(ParamDefault), 44100)
    IN  /\ heap = m.heap
        /\ chain = m.chain

\* a thread gives a parameter a new value ...
Host_Store(h, id, v) ==
    /\ host[h].pc = "idle"
    /\ nChanges < MaxChanges
    /\ v # params[id]
    /\ params' = [params EXCEPT ![id] = v]
    /\ host' = [host EXCEPT ![h] = [pc |-> "notify", id |-> id]]
    /\ nChanges' = nChanges + 1
    /\ UNCHANGED <<sampleRate, parametersChanged, timer, chainVars>>

\* ... and the parameter calls its listeners: ResponseCurve::parameterValueChanged
Host_Notify(h) ==
    /\ host[h].pc = "notify"
    /\ parametersChanged' = parameterValueChanged(parametersChanged)
    /\ host' = [host EXCEPT ![h].pc = "idle"]
    /\ UNCHANGED <<paramVars, timer, nChanges, chainVars>>

\* timerCallback: if (parametersChanged.compareAndSetBool(false, true))
Timer_Tick ==
    /\ timer.pc = "idle"
    /\ LET cas == compareAndSetBool(parametersChanged, FALSE, TRUE)
       IN  /\ parametersChanged' = cas.value
           /\ timer' = IF cas.ok
                       THEN [timer EXCEPT !.pc = "getChainSettings", !.k = 1,
                                          !.cs = DefaultChainSettings]
                       ELSE timer
    /\ UNCHANGED <<paramVars, host, nChanges, chainVars>>

\* updateChain, getChainSettings: the k-th load
Timer_Load ==
    /\ timer.pc = "getChainSettings"
    /\ timer' = [timer EXCEPT !.cs = LoadParam(timer.cs, params, ParamOrder[timer.k]),
                              !.k = @ + 1,
                              !.pc = IF timer.k = Len(ParamOrder) THEN "updateChain"
                                     ELSE "getChainSettings"]
    /\ UNCHANGED <<paramVars, parametersChanged, host, nChanges, chainVars>>

\* the timer thread when updateChain has returned and repaint() was called
TimerAfterUpdate(t) == [t EXCEPT !.pc = "idle", !.applied = t.cs, !.repaints = 1]

\* updateChain, the three filter updates; then repaint() and return
Timer_Update ==
    /\ timer.pc = "updateChain"
    /\ LET m == updateChain([heap |-> heap, chain |-> chain], timer.cs, sampleRate)
       IN  /\ heap' = m.heap
           /\ chain' = m.chain
    /\ timer' = TimerAfterUpdate(timer)
    /\ UNCHANGED <<paramVars, parametersChanged, host, nChanges>>

TimerNext ==
    \/ Timer_Tick
    \/ Timer_Load
    \/ Timer_Update

HostNotifyNext == \E h \in HostThreads : Host_Notify(h)

-----------------------------------------------------------------------------
(* Fifo<T>: an array of Capacity items and a juce::AbstractFifo {Capacity}  *)
(* that hands out the slot to write and the slot to read.                   *)

Capacity == 30

Slots == 0..(Capacity - 1)

Min(a, b) == IF a < b THEN a ELSE b

\* An item is copied word by word; the model copies it in two halves.  The
\* k-th item the producer offers is <<k, k>>; a slot holds <<0, 0>> at first.
Item(k) == <<k, k>>

\* AbstractFifo::getNumReady
getNumReady(vs, ve) == IF ve >= vs THEN ve - vs ELSE Capacity - (vs - ve)

\* AbstractFifo::getFreeSpace
getFreeSpace(vs, ve) == Capacity - getNumReady(vs, ve) - 1

\* Fifo::getNumAvailableForReading
getNumAvailableForReading == getNumReady(validStart, validEnd)

\* a write reservation that keeps no slot free between the two positions
prepareToWriteNoGap(vs, ve, numToWrite) ==
    LET freeSpace == IF ve >= vs THEN Capacity - (ve - vs) ELSE vs - ve
        n == Min(numToWrite, freeSpace)
    IN  IF n <= 0
        THEN [startIndex1 |-> 0, blockSize1 |-> 0, blockSize2 |-> 0]
        ELSE [startIndex1 |-> ve,
              blockSize1 |-> Min(Capacity - ve, n),
              blockSize2 |-> IF n - Min(Capacity - ve, n) <= 0 THEN 0
                             ELSE Min(n - Min(Capacity - ve, n), vs)]

\* fifo.write(n): AbstractFifo::prepareToWrite, run by the ScopedWrite constructor
prepareToWrite(vs, ve, numToWrite) ==
    LET freeSpace == IF ve >= vs THEN Capacity - (ve - vs) ELSE vs - ve
        n == Min(numToWrite, freeSpace - 1)
    IN  IF n <= 0
        THEN [startIndex1 |-> 0, blockSize1 |-> 0, blockSize2 |-> 0]
        ELSE [startIndex1 |-> ve,
              blockSize1 |-> Min(Capacity - ve, n),
              blockSize2 |-> IF n - Min(Capacity - ve, n) <= 0 THEN 0
                             ELSE Min(n - Min(Capacity - ve, n), vs)]

\* a read reservation that counts one item more than is ready
prepareToReadOneMore(vs, ve, numWanted) ==
    LET numReady == (IF ve >= vs THEN ve - vs ELSE Capacity - (vs - ve)) + 1
        n == Min(numWanted, numReady)
    IN  IF n <= 0
        THEN [startIndex1 |-> 0, blockSize1 |-> 0, blockSize2 |-> 0]
        ELSE [startIndex1 |-> vs,
              blockSize1 |-> Min(Capacity - vs, n),
              blockSize2 |-> IF n - Min(Capacity - vs, n) <= 0 THEN 0
                             ELSE Min(n - Min(Capacity - vs, n), ve)]

\* fifo.read(n): AbstractFifo::prepareToRead, run by the ScopedRead constructor
prepareToRead(vs, ve, numWanted) ==
    LET numReady == IF ve >= vs THEN ve - vs ELSE Capacity - (vs - ve)
        n == Min(numWanted, numReady)
    IN  IF n <= 0
        THEN [startIndex1 |-> 0, blockSize1 |-> 0, blockSize2 |-> 0]
        ELSE [startIndex1 |-> vs,
              blockSize1 |-> Min(Capacity - vs, n),
              blockSize2 |-> IF n - Min(Capacity - vs, n) <= 0 THEN 0
                             ELSE Min(n - Min(Capacity - vs, n), ve)]

\* a position that is advanced and never wrapped
finishedNoWrap(position, num) == position + num

\* AbstractFifo::finishedWrite and finishedRead, run by the destructor of the
\* ScopedWrite / ScopedRead with blockSize1 + blockSize2: the new position
finished(position, num) ==
    IF position + num >= Capacity THEN position + num - Capacity ELSE position + num

\* a push that stores the item whether or not a slot was reserved
pushStoresAlways(write) == TRUE

\* Fifo::push: if ( write.blockSize1 > 0 )
pushStores(write) == write.blockSize1 > 0

\* a pull that copies a slot out whether or not one was reserved
pullCopiesAlways(read) == TRUE

\* Fifo::pull: if ( read.blockSize1 > 0 )
pullCopies(read) == read.blockSize1 > 0

NoBlock == [startIndex1 |-> 0, blockSize1 |-> 0, blockSize2 |-> 0]

\* the number of push calls in a run, and of pull calls that find nothing
MaxPushes == 31
MaxEmptyPulls == 2

\* SingleChannelSampleFifo(channel): prepared = false, size = 0, fifoIndex = 0,
\* bufferToFill without samples; no call of update in progress
ScsfInit ==
    /\ scsf = [c \in {"left", "right"} |->
                  [prepared |-> FALSE, size |-> 0, fifoIndex |-> 0,
                   bufferToFill |-> <<>>]]
    /\ upd = [pc |-> "idle", i |-> 0, n |-> 0, fed |-> 0]

\* FFTDataGenerator and AnalyzerPathGenerator as constructed: no order chosen,
\* fftData empty, both queues empty
AnalyzerInit ==
    /\ fft = [order |-> 0, fftData |-> [size |-> 0, numDecibels |-> 0, order |-> 0],
              slotSize |-> 0, frames |-> <<>>, pulled |-> <<>>, produced |-> 0]
    /\ pathGen = [pushed |-> <<>>, numReady |-> 0, calls |-> 0]

\* the constructor's BusesProperties: input and output stereo; no query yet,
\* no block processed
BusInit ==
    [layout |-> [in |-> "stereo", out |-> "stereo"],
     query |-> [in |-> "stereo", out |-> "stereo"], asked |-> FALSE, result |-> FALSE,
     numChannels |-> 2, touched |-> {}, calls |-> 0]

\* no ResponseCurve exists
ViewInit ==
    [state |-> "none", listeners |-> {}, timerRunning |-> FALSE, k |-> 1,
     changes |-> 0, ticks |-> 0, lives |-> 0]

\* the processor as constructed: nothing saved, the stereo in / stereo out
\* layout of its BusesProperties, no query made; no ResponseCurve constructed
HostInit ==
    /\ persist = [destData |-> <<>>, saved |-> ParamDefault, phase |-> "none"]
    /\ bus = BusInit
    /\ view = ViewInit

FifoInit ==
    /\ buffers = [i \in Slots |-> Item(0)]
    /\ validStart = 0
    /\ validEnd = 0
    /\ prod = [pc |-> "idle", write |-> NoBlock, t |-> Item(0), ret |-> FALSE,
               full |-> FALSE]
    /\ cons = [pc |-> "idle", read |-> NoBlock, t |-> Item(0), ret |-> FALSE,
               empty |-> FALSE, t0 |-> Item(0)]
    /\ hist = [pushCalls |-> 0, pushed |-> <<>>, pulled |-> <<>>, unread |-> {},
               pullCalls |-> 0, emptyPulls |-> 0, sequential |-> TRUE]

\* push(t), first statement: auto write = fifo.write(1)
Push_Reserve ==
    /\ prod.pc = "idle"
    /\ hist.pushCalls < MaxPushes
    /\ prod' = [pc |-> "reserved",
                write |-> prepareToWrite(validStart, validEnd, 1),
                t |-> Item(hist.pushCalls + 1),
                ret |-> FALSE,
                full |-> (getFreeSpace(validStart, validEnd) = 0)]
    /\ hist' = [hist EXCEPT !.pushCalls = @ + 1,
                            !.sequential = @ /\ hist.pullCalls = 0]
    /\ UNCHANGED <<buffers, validStart, validEnd, cons>>

\* buffers[write.startIndex1] = t, first half of the item
Push_StoreFirst ==
    /\ prod.pc = "reserved"
    /\ pushStores(prod.write)
    /\ buffers' = [buffers EXCEPT ![prod.write.startIndex1][1] = prod.t[1]]
    /\ prod' = [prod EXCEPT !.pc = "storing"]
    /\ UNCHANGED <<validStart, validEnd, cons, hist>>

\* buffers[write.startIndex1] = t, second half of the item; return true
Push_StoreSecond ==
    /\ prod.pc = "storing"
    /\ buffers' = [buffers EXCEPT ![prod.write.startIndex1][2] = prod.t[2]]
    /\ prod' = [prod EXCEPT !.pc = "returning", !.ret = TRUE]
    /\ UNCHANGED <<validStart, validEnd, cons, hist>>

\* blockSize1 = 0: return false
Push_Refuse ==
    /\ prod.pc = "reserved"
    /\ ~pushStores(prod.write)
    /\ prod' = [prod EXCEPT !.pc = "returning", !.ret = FALSE]
    /\ UNCHANGED <<buffers, validStart, validEnd, cons, hist>>

\* leaving push: ~ScopedWrite calls finishedWrite(blockSize1 + blockSize2)
Push_Return ==
    /\ prod.pc = "returning"
    /\ validEnd' = finished(validEnd, prod.write.blockSize1 + prod.write.blockSize2)
    /\ prod' = [prod EXCEPT !.pc = "idle"]
    /\ hist' = IF prod.ret
               THEN [hist EXCEPT !.pushed = Append(@, prod.t),
                                 !.unread = @ \cup {prod.write.startIndex1}]
               ELSE hist
    /\ UNCHANGED <<buffers, validStart, cons>>

\* pull(t), first statement: auto read = fifo.read(1)
Pull_Reserve ==
    /\ cons.pc = "idle"
    /\ getNumReady(validStart, validEnd) = 0 => hist.emptyPulls < MaxEmptyPulls
    /\ cons' = [cons EXCEPT !.pc = "reserved",
                            !.read = prepareToRead(validStart, validEnd, 1),
                            !.ret = FALSE,
                            !.empty = (getNumReady(validStart, validEnd) = 0),
                            !.t0 = cons.t]
    /\ hist' = [hist EXCEPT !.pullCalls = @ + 1,
                            !.emptyPulls = IF getNumReady(validStart, validEnd) = 0
                                           THEN @ + 1 ELSE @,
                            !.sequential = @ /\ prod.pc = "idle"]
    /\ UNCHANGED <<buffers, validStart, validEnd, prod>>

\* t = buffers[read.startIndex1], first half of the item
Pull_CopyFirst ==
    /\ cons.pc = "reserved"
    /\ pullCopies(cons.read)
    /\ cons' = [cons EXCEPT !.pc = "copying",
                            !.t[1] = buffers[cons.read.startIndex1][1]]
    /\ UNCHANGED <<buffers, validStart, validEnd, prod, hist>>

\* t = buffers[read.startIndex1], second half of the item; return true
Pull_CopySecond ==
    /\ cons.pc = "copying"
    /\ cons' = [cons EXCEPT !.pc = "returning", !.ret = TRUE,
                            !.t[2] = buffers[cons.read.startIndex1][2]]
    /\ UNCHANGED <<buffers, validStart, validEnd, prod, hist>>

\* blockSize1 = 0: return false
Pull_Refuse ==
    /\ cons.pc = "reserved"
    /\ ~pullCopies(cons.read)
    /\ cons' = [cons EXCEPT !.pc = "returning", !.ret = FALSE]
    /\ UNCHANGED <<buffers, validStart, validEnd, prod, hist>>

\* leaving pull: ~ScopedRead calls finishedRead(blockSize1 + blockSize2)
Pull_Return ==
    /\ cons.pc = "returning"
    /\ validStart' = finished(validStart, cons.read.blockSize1 + cons.read.blockSize2)
    /\ cons' = [cons EXCEPT !.pc = "idle"]
    /\ hist' = IF cons.ret
               THEN [hist EXCEPT !.pulled = Append(@, cons.t),
                                 !.unread = @ \ {cons.read.startIndex1}]
               ELSE hist
    /\ UNCHANGED <<buffers, validEnd, prod>>

ProducerNext ==
    \/ Push_Reserve
    \/ Push_StoreFirst
    \/ Push_StoreSecond
    \/ Push_Refuse
    \/ Push_Return

ConsumerNext ==
    \/ Pull_Reserve
    \/ Pull_CopyFirst
    \/ Pull_CopySecond
    \/ Pull_Refuse
    \/ Pull_Return

notFifoVars == <<heap, chain, lastOp, nOps, paramVars, flagVars, procVars, scsfVars, analyzerVars, hostVars>>

FifoNext ==
    \/ Push_Reserve /\ UNCHANGED notFifoVars
    \/ Push_StoreFirst /\ UNCHANGED notFifoVars
    \/ Push_StoreSecond /\ UNCHANGED notFifoVars
    \/ Push_Refuse /\ UNCHANGED notFifoVars
    \/ Push_Return /\ UNCHANGED notFifoVars
    \/ Pull_Reserve /\ UNCHANGED notFifoVars
    \/ Pull_CopyFirst /\ UNCHANGED notFifoVars
    \/ Pull_CopySecond /\ UNCHANGED notFifoVars
    \/ Pull_Refuse /\ UNCHANGED notFifoVars
    \/ Pull_Return /\ UNCHANGED notFifoVars

FifoSpecInit ==
    /\ FifoInit
    /\ ScsfInit
    /\ AnalyzerInit
    /\ HostInit
    /\ AudioInit
    /\ ChainInit
    /\ ParamInit
    /\ FlagInit
    /\ lastOp = NoOp
    /\ nOps = 0

SpecFifo == FifoSpecInit /\ [][FifoNext]_vars

\* C2: N pushes on an empty Fifo followed by N pulls, N <= Capacity: every push
\* and every pull returns true and the pulls return the N items in push order.
\* (hist.sequential: no pull was called before the last push returned.)
C2_PushesThenPulls ==
    (hist.sequential /\ hist.pushCalls <= Capacity) =>
        /\ prod.pc = "idle" => Len(hist.pushed) = hist.pushCalls
        /\ (cons.pc = "idle" /\ hist.pullCalls <= hist.pushCalls) =>
              /\ Len(hist.pulled) = hist.pullCalls
              /\ \A j \in 1..Len(hist.pulled) : hist.pulled[j] = Item(j)

\* C3: a push called on a full Fifo (no free write slot) takes every step without
\* waiting, changes no slot, neither position and not the number of items
\* available for reading, and returns false.
C3_Step ==
    /\ (prod.pc # "idle" /\ prod.full) => ENABLED ProducerNext
    /\ (prod'.pc # prod.pc /\ prod'.full) =>
          /\ buffers' = buffers
          /\ validStart' = validStart
          /\ validEnd' = validEnd
          /\ getNumReady(validStart', validEnd') = getNumReady(validStart, validEnd)
          /\ prod'.pc = "idle" => ~prod'.ret

C3_FullPushRefused == [][C3_Step]_vars

\* a push has returned false on a Fifo that holds Capacity - 1 unread items
C3_Witness ==
    /\ prod.pc = "idle"
    /\ prod.full
    /\ ~prod.ret
    /\ hist.pushCalls > 0
    /\ getNumAvailableForReading = Capacity - 1

\* C4: a pull called on a Fifo that holds no unread item returns false, leaves
\* the caller's output object as it was and changes neither position.
\* (getAudioBuffer, getFFTData and getPath return pull's result.)
C4_Step ==
    (cons'.pc # cons.pc /\ cons'.empty) =>
        /\ cons'.t = cons'.t0
        /\ validStart' = validStart
        /\ validEnd' = validEnd
        /\ cons'.pc = "idle" => ~cons'.ret

C4_EmptyPullRefused == [][C4_Step]_vars

\* a pull has returned false on an empty Fifo, the caller's object still holding
\* the item of an earlier pull
C4_Witness ==
    /\ cons.pc = "idle"
    /\ cons.empty
    /\ ~cons.ret
    /\ hist.pullCalls > 0
    /\ cons.t # Item(0)
    /\ getNumAvailableForReading = 0

\* C5: with one producer and one consumer, a push never stores into a slot that
\* holds an item which has been pushed and not yet pulled.
C5_Step ==
    (buffers' # buffers) => prod.write.startIndex1 \notin hist.unread

C5_NoOverwriteOfUnread == [][C5_Step]_vars

\* the producer stores into slot 0 for the second time, other items being unread
C5_Witness ==
    /\ prod.pc = "storing"
    /\ prod.write.startIndex1 = 0
    /\ Len(hist.pushed) >= Capacity
    /\ hist.unread # {}

\* C6: in every interleaving of the producer and the consumer, the items returned
\* by successful pulls are, in order, the items of the first successful pushes:
\* each is a whole item of an earlier successful push, in push order, none twice.
C6_PulledIsPrefixOfPushed ==
    /\ Len(hist.pulled) <= Len(hist.pushed)
    /\ \A j \in 1..Len(hist.pulled) : hist.pulled[j] = hist.pushed[j]

\* the consumer copies an item out while the producer is storing another one
C6_Witness ==
    /\ cons.pc = "copying"
    /\ prod.pc = "storing"
    /\ Len(hist.pulled) >= 1

\* both positions are slots of the array, and the count of unread items is
\* the successful pushes minus the successful pulls
C26_Positions ==
    /\ validStart \in 0..(Capacity - 1)
    /\ validEnd \in 0..(Capacity - 1)
    /\ getNumAvailableForReading = Len(hist.pushed) - Len(hist.pulled)
    /\ getNumAvailableForReading \in 0..Capacity

\* a position changes only when a push (for the write position) or a pull
\* (for the read position) that succeeded returns, and then by one slot modulo
\* Capacity; a push or pull that failed leaves it
C26_Step ==
    /\ validEnd' # validEnd =>
          /\ prod.pc = "returning" /\ prod.ret /\ prod'.pc = "idle"
          /\ validEnd' = (validEnd + 1) % Capacity
    /\ validStart' # validStart =>
          /\ cons.pc = "returning" /\ cons.ret /\ cons'.pc = "idle"
          /\ validStart' = (validStart + 1) % Capacity
    /\ (prod.pc = "returning" /\ prod'.pc = "idle") =>
          validEnd' = (IF prod.ret THEN (validEnd + 1) % Capacity ELSE validEnd)
    /\ (cons.pc = "returning" /\ cons'.pc = "idle") =>
          validStart' = (IF cons.ret THEN (validStart + 1) % Capacity ELSE validStart)

\* C26: in every reachable state of the Fifo the read and the write position
\* are in 0..Capacity-1; each changes only by advancing one slot modulo
\* Capacity on a successful pull respectively push; and
\* getNumAvailableForReading equals successful pushes minus successful pulls
\* and is between 0 and Capacity
C26_PositionsAdvanceModuloCapacity ==
    /\ []C26_Positions
    /\ [][C26_Step]_vars

\* the write position has wrapped around the end of the array and stands
\* behind the read position, with items unread
C26_Witness ==
    /\ Len(hist.pushed) >= Capacity
    /\ validEnd < validStart
    /\ getNumAvailableForReading > 1
    /\ prod.pc = "idle"
    /\ cons.pc = "idle"


-----------------------------------------------------------------------------
(* The ResponseCurve with its timer and the threads that change parameters  *)

notFlagVars == <<lastOp, nOps, fifoVars, procVars, scsfVars, analyzerVars, hostVars>>

FlagNext ==
    \/ \E h \in HostThreads, id \in ParamIds : \E v \in ChangedValues(id) :
          Host_Store(h, id, v) /\ UNCHANGED notFlagVars
    \/ \E h \in HostThreads : Host_Notify(h) /\ UNCHANGED notFlagVars
    \/ Timer_Tick /\ UNCHANGED notFlagVars
    \/ Timer_Load /\ UNCHANGED notFlagVars
    \/ Timer_Update /\ UNCHANGED notFlagVars

FlagSpecInit ==
    /\ ParamInit
    /\ ScsfInit
    /\ AnalyzerInit
    /\ HostInit
    /\ AudioInit
    /\ FlagInit
    /\ FlagChainInit
    /\ FifoInit
    /\ lastOp = NoOp
    /\ nOps = 0

SpecFlag == FlagSpecInit /\ [][FlagNext]_vars

\* the timer keeps firing and a thread that changed a parameter goes on to
\* call the listeners
\* (the step that leaves updateChain is named by what it does to the timer
\* thread: the only step of FlagNext that does this is Timer_Update)
SpecFlagFair ==
    /\ SpecFlag
    /\ WF_vars(Timer_Tick /\ UNCHANGED notFlagVars)
    /\ WF_vars(Timer_Load /\ UNCHANGED notFlagVars)
    /\ WF_timer(timer.pc = "updateChain" /\ timer' = TimerAfterUpdate(timer))
    /\ WF_vars(HostNotifyNext /\ UNCHANGED notFlagVars)

\* the value of a parameter differs from the one the snapshot holds
Unseen(id) == timer.cs[FieldOf(id)] # params[id]

\* the recompute in progress has not loaded the parameter yet
WillLoad(id) ==
    /\ timer.pc = "getChainSettings"
    /\ \E j \in timer.k..Len(ParamOrder) : ParamOrder[j] = id

\* a thread has stored the parameter and not yet called the listeners
InFlight(id) == \E h \in HostThreads : host[h].pc = "notify" /\ host[h].id = id

C7_FlagCoversUnseen ==
    \A id \in ParamIds :
        (Unseen(id) /\ ~WillLoad(id)) => (parametersChanged \/ InFlight(id))

\* monoChain was last updated from a snapshot equal to the current parameters
C7_Applied == timer.applied = getChainSettings(params)

\* C7: no parameter update is lost.  A parameter whose value differs from the
\* value the current or last recompute loaded has parametersChanged true (or its
\* listener call is still to come), in particular when the recompute ends; and
\* with the timer firing, updateChain eventually runs on the changed values.
C7_NoLostUpdate ==
    /\ []C7_FlagCoversUnseen
    /\ (~C7_Applied) ~> C7_Applied

\* a parameter was changed after the recompute in progress had loaded it, and
\* the listener has been called
C7_Witness ==
    /\ timer.pc = "updateChain"
    /\ \E id \in ParamIds : Unseen(id)
    /\ \A h \in HostThreads : host[h].pc = "idle"
    /\ parametersChanged

\* what a step may do to the flag, the timer thread and monoChain
C23_Step ==
    \* with the flag false the timer thread does not start and monoChain stays
    /\ (timer.pc = "idle" /\ ~parametersChanged) =>
           (timer' = timer /\ heap' = heap /\ chain' = chain)
    \* the timer thread leaves timerCallback's test only with the flag true,
    \* and that step clears the flag and has read no parameter yet
    /\ (timer.pc = "idle" /\ timer' # timer) =>
           /\ parametersChanged
           /\ ~parametersChanged'
           /\ timer'.pc = "getChainSettings"
           /\ timer'.k = 1
           /\ timer'.cs = DefaultChainSettings
    \* nothing else clears the flag: a clearing step starts updateChain
    /\ (parametersChanged /\ ~parametersChanged') =>
           (timer.pc = "idle" /\ timer'.pc = "getChainSettings")
    \* monoChain changes only in updateChain, followed by repaint()
    /\ (heap' # heap \/ chain' # chain) =>
           (timer.pc = "updateChain" /\ timer'.pc = "idle" /\ timer'.repaints = 1)

\* C23: timerCallback runs updateChain and asks for a repaint exactly when
\* parametersChanged was true at its compare-and-set; the flag is cleared in
\* that one step, before updateChain reads a parameter; with the flag false a
\* tick changes neither the flag nor monoChain
C23_UpdateIffFlagWasSet == [][C23_Step]_vars

\* the compare-and-set has just cleared the flag and updateChain has not yet
\* read a parameter
C23_Witness ==
    /\ timer.pc = "getChainSettings"
    /\ timer.k = 1
    /\ ~parametersChanged
    /\ nChanges = 1
    /\ \A h \in HostThreads : host[h].pc = "idle"

-----------------------------------------------------------------------------
(* The processor: prepareToPlay and processBlock on leftChain and rightChain *)

\* *filter.coefficients = *coefficients, with the pointers swapped for the values
CopyCoefficientsByPointer(m, c, st, src) ==
    [m EXCEPT !.chain[c][st].ref = src]

\* an assignment that never gets beyond its first part
CopyCoefficientsUnfinished(m, c, st, src) == m

\* *filter.coefficients = *coefficients: the values of the object `src` are
\* copied into the object the filter points to
CopyCoefficients(m, c, st, src) ==
    [m EXCEPT !.heap[m.chain[c][st].ref] = m.heap[src]]

\* an assignment *filter.coefficients = *coefficients that has begun: the
\* object the filter points to holds part of the old and part of the new values
Partial(old, new) == IF old = new THEN new ELSE <<"partial", old, new>>

Complete(coefficients) == coefficients[1] # "partial"

BeginCopy(m, c, st, src) ==
    [m EXCEPT !.heap[m.chain[c][st].ref] = Partial(@, m.heap[src])]

\* the four setBypassed<i>(true) ahead of the switch
bypassAll(m, c) ==
    setBypassed(setBypassed(setBypassed(setBypassed(m, c, <<LowCut, 0>>, TRUE),
                c, <<LowCut, 1>>, TRUE), c, <<LowCut, 2>>, TRUE), c, <<LowCut, 3>>, TRUE)

\* the sections the case of the switch assigns, in the order it assigns them
switchSections(lowCutSlope) ==
    CASE lowCutSlope = SLOPE_48 -> <<3, 2, 1, 0>>
      [] lowCutSlope = SLOPE_36 -> <<2, 1, 0>>
      [] lowCutSlope = SLOPE_24 -> <<1, 0>>
      [] lowCutSlope = SLOPE_12 -> <<0>>

\* the statement pair written for leftLowCutFilter whichever chain is updated
EnableSectionOfLeft(m, c, i) ==
    setBypassed(CopyCoefficients(m, "left", <<LowCut, i>>, TmpObj(i)),
                "left", <<LowCut, i>>, FALSE)

\* one "*f.get<i>().coefficients = *lowCutCoefficients[i]; f.setBypassed<i>(false);"
EnableSection(m, c, i) ==
    setBypassed(CopyCoefficients(m, c, <<LowCut, i>>, TmpObj(i)), c, <<LowCut, i>>, FALSE)

\* a switch whose cases assign only the section named after the slope
lowCutSwitchOwnSection(m, c, lowCutSlope) ==
    EnableSection(bypassAll(m, c), c, lowCutSlope)

\* the low cut update of prepareToPlay and processBlock for one chain: bypass
\* the four sections, then the switch on lowCutSlope, each case ending in break
lowCutSwitch(m, c, lowCutSlope) ==
    LET b0 == setBypassed(m, c, <<LowCut, 0>>, TRUE)
        b1 == setBypassed(b0, c, <<LowCut, 1>>, TRUE)
        b2 == setBypassed(b1, c, <<LowCut, 2>>, TRUE)
        b3 == setBypassed(b2, c, <<LowCut, 3>>, TRUE)
    IN  CASE lowCutSlope = SLOPE_48 ->
               EnableSection(EnableSection(EnableSection(EnableSection(b3, c, 3), c, 2), c, 1), c, 0)
          [] lowCutSlope = SLOPE_36 ->
               EnableSection(EnableSection(EnableSection(b3, c, 2), c, 1), c, 0)
          [] lowCutSlope = SLOPE_24 ->
               EnableSection(EnableSection(b3, c, 1), c, 0)
          [] lowCutSlope = SLOPE_12 ->
               EnableSection(b3, c, 0)
          [] OTHER -> b3

\* a MonoChain with the peak filter ahead of the two cut filters
StageOrderPeakFirst ==
    <<<<Peak, 0>>, <<LowCut, 0>>, <<LowCut, 1>>, <<LowCut, 2>>, <<LowCut, 3>>,
      <<HighCut, 0>>, <<HighCut, 1>>, <<HighCut, 2>>, <<HighCut, 3>>>>

\* MonoChain = ProcessorChain<CutFilter, Filter, CutFilter>, CutFilter =
\* ProcessorChain<Filter, Filter, Filter, Filter>: process() runs the processors
\* in the order of the template arguments
StageOrder ==
    <<<<LowCut, 0>>, <<LowCut, 1>>, <<LowCut, 2>>, <<LowCut, 3>>, <<Peak, 0>>,
      <<HighCut, 0>>, <<HighCut, 1>>, <<HighCut, 2>>, <<HighCut, 3>>>>

\* a sample as the host hands it over: sample i of channel ch, no filter applied
InputSample(ch, i) == [src |-> <<ch, i>>, path |-> <<>>]

\* Filter::process on a block: every sample goes through the filter, which
\* uses its coefficients and leaves the last sample in its delay registers
FilterBlock(block, st, coef) ==
    [i \in 1..Len(block) |-> [block[i] EXCEPT !.path = Append(@, <<st, coef>>)]]

\* [memory, block] after the stages StageOrder[k..] of chain c have processed
\* the block in place; a bypassed stage is skipped
RECURSIVE ProcessFrom(_, _, _, _)
ProcessFrom(m, c, block, k) ==
    IF k > Len(StageOrder) THEN [m |-> m, block |-> block]
    ELSE LET st == StageOrder[k]
             f == m.chain[c][st]
         IN  IF f.byp \/ Len(block) = 0
             THEN ProcessFrom(m, c, block, k + 1)
             ELSE ProcessFrom([m EXCEPT !.chain[c][st].z = <<block[Len(block)].src>>],
                              c, FilterBlock(block, st, m.heap[f.ref]), k + 1)

\* chain.process(context) with a replacing context on one channel
ProcessChain(m, c, block) == ProcessFrom(m, c, block, 1)

\* chain.prepare(processSpec): every filter resets its delay registers
PrepareChain(m, c) ==
    [m EXCEPT !.chain[c] = [st \in Stages |-> [m.chain[c][st] EXCEPT !.z = <<>>]]]

\* the channel of the buffer each chain of the processor works on
ChannelOf(c) == IF c = "left" THEN 0 ELSE 1

ProcChains == {"left", "right"}

\* the number of samples of a block, of calls of prepareToPlay and processBlock
MaxBlock == 2
MaxCalls == 3

\* the number of parameter changes while the processor runs
MaxSets == 1

Mem == [heap |-> heap, chain |-> chain]

\* the host changes a parameter
SetParameter(id, v) ==
    /\ nChanges < MaxSets
    /\ v # params[id]
    /\ params' = [params EXCEPT ![id] = v]
    /\ nChanges' = nChanges + 1
    /\ UNCHANGED <<sampleRate, chainVars, procVars, lastOp, nOps>>

\* the host calls prepareToPlay(sampleRate, samplesPerBlock)
Call_prepareToPlay(sr) ==
    /\ audio.pc = "idle"
    /\ nOps < MaxCalls
    /\ nOps' = nOps + 1
    /\ sampleRate' = sr
    /\ audio' = [audio EXCEPT !.fn = "prepareToPlay", !.pc = "prepareLeft",
                              !.allocs = 0]
    /\ lastOp' = NoOp
    /\ UNCHANGED <<params, nChanges, chainVars, buffer>>

\* leftChain.prepare(processSpec)
PrepareLeft ==
    /\ audio.pc = "prepareLeft"
    /\ chain' = PrepareChain(Mem, "left").chain
    /\ audio' = [audio EXCEPT !.pc = "prepareRight"]
    /\ UNCHANGED <<paramVars, nChanges, heap, buffer, lastOp, nOps>>

\* rightChain.prepare(processSpec)
PrepareRight ==
    /\ audio.pc = "prepareRight"
    /\ chain' = PrepareChain(Mem, "right").chain
    /\ audio' = [audio EXCEPT !.pc = "getChainSettings", !.k = 1,
                              !.cs = DefaultChainSettings]
    /\ UNCHANGED <<paramVars, nChanges, heap, buffer, lastOp, nOps>>

\* the host calls processBlock(buffer, midiMessages) with a stereo buffer of n
\* samples; inputs and outputs are equal in number, so no channel is cleared
Call_processBlock(n) ==
    /\ audio.pc = "idle"
    /\ audio.prepared
    /\ nOps < MaxCalls
    /\ nOps' = nOps + 1
    /\ buffer' = [ch \in 0..1 |-> [i \in 1..n |-> InputSample(ch, i)]]
    /\ audio' = [audio EXCEPT !.fn = "processBlock", !.pc = "getChainSettings",
                              !.k = 1, !.cs = DefaultChainSettings, !.n = n,
                              !.allocs = 0]
    /\ lastOp' = NoOp
    /\ UNCHANGED <<paramVars, nChanges, chainVars>>

\* getChainSettings(APVTS): the k-th load
LoadSettings ==
    /\ audio.pc = "getChainSettings"
    /\ audio' = [audio EXCEPT !.cs = LoadParam(audio.cs, params, ParamOrder[audio.k]),
                              !.k = @ + 1,
                              !.pc = IF audio.k = Len(ParamOrder) THEN "peakLeft"
                                     ELSE "getChainSettings"]
    /\ UNCHANGED <<paramVars, nChanges, chainVars, buffer, lastOp, nOps>>

\* peakCoefficients = makePeakFilter(...); the assignment
\* *leftChain.get<Peak>().coefficients = *peakCoefficients begins
PeakLeft ==
    /\ audio.pc = "peakLeft"
    /\ LET m0 == [Mem EXCEPT !.heap =
                     AllocatePeak(heap, <<PeakDesign(sampleRate, audio.cs.peakFreq,
                                                     audio.cs.peakQ, audio.cs.peakGain_dB)>>)]
           m1 == BeginCopy(m0, "left", <<Peak, 0>>, TmpObj(4))
       IN  /\ heap' = m1.heap
           /\ chain' = m1.chain
    /\ audio' = [audio EXCEPT !.pc = "peakLeftEnd", !.allocs = @ + 1]
    /\ UNCHANGED <<paramVars, nChanges, buffer, lastOp, nOps>>

\* ... and is complete
PeakLeftEnd ==
    /\ audio.pc = "peakLeftEnd"
    /\ LET m1 == CopyCoefficients(Mem, "left", <<Peak, 0>>, TmpObj(4))
       IN  /\ heap' = m1.heap
           /\ chain' = m1.chain
    /\ audio' = [audio EXCEPT !.pc = "peakRight"]
    /\ UNCHANGED <<paramVars, nChanges, buffer, lastOp, nOps>>

\* *rightChain.get<Peak>().coefficients = *peakCoefficients begins
PeakRight ==
    /\ audio.pc = "peakRight"
    /\ LET m1 == BeginCopy(Mem, "right", <<Peak, 0>>, TmpObj(4))
       IN  /\ heap' = m1.heap
           /\ chain' = m1.chain
    /\ audio' = [audio EXCEPT !.pc = "peakRightEnd"]
    /\ UNCHANGED <<paramVars, nChanges, buffer, lastOp, nOps>>

\* ... and is complete
PeakRightEnd ==
    /\ audio.pc = "peakRightEnd"
    /\ LET m1 == CopyCoefficients(Mem, "right", <<Peak, 0>>, TmpObj(4))
       IN  /\ heap' = m1.heap
           /\ chain' = m1.chain
    /\ audio' = [audio EXCEPT !.pc = "lowCutLeft"]
    /\ UNCHANGED <<paramVars, nChanges, buffer, lastOp, nOps>>

\* lowCutCoefficients = design...(lowCutFreq, sampleRate, 2 * (lowCutSlope + 1));
\* then the four bypasses of leftChain's low cut and the entry of the switch
LowCutLeft ==
    /\ audio.pc = "lowCutLeft"
    /\ LET lowCutFilterOrder == 2 * (audio.cs.lowCutSlope + 1)
           m0 == [Mem EXCEPT !.heap =
                     Allocate(heap, Butterworth("HP", audio.cs.lowCutFreq, sampleRate,
                                                lowCutFilterOrder))]
           m1 == bypassAll(m0, "left")
       IN  /\ heap' = m1.heap
           /\ chain' = m1.chain
    /\ audio' = [audio EXCEPT !.pc = "copyLeft",
                              !.sec = switchSections(audio.cs.lowCutSlope),
                              !.allocs = @ + (2 * (audio.cs.lowCutSlope + 1)) \div 2]
    /\ UNCHANGED <<paramVars, nChanges, buffer, lastOp, nOps>>

\* the next assignment of the case: *leftLowCut.get<i>().coefficients =
\* *lowCutCoefficients[i] begins
CopyLeft ==
    /\ audio.pc = "copyLeft"
    /\ LET i == Head(audio.sec)
           m1 == BeginCopy(Mem, "left", <<LowCut, i>>, TmpObj(i))
       IN  /\ heap' = m1.heap
           /\ chain' = m1.chain
    /\ audio' = [audio EXCEPT !.pc = "copyLeftEnd"]
    /\ UNCHANGED <<paramVars, nChanges, buffer, lastOp, nOps>>

\* ... is complete; leftLowCut.setBypassed<i>(false); after the last one, break
CopyLeftEnd ==
    /\ audio.pc = "copyLeftEnd"
    /\ LET m1 == EnableSection(Mem, "left", Head(audio.sec))
       IN  /\ heap' = m1.heap
           /\ chain' = m1.chain
    /\ audio' = [audio EXCEPT !.sec = Tail(@),
                              !.pc = IF Tail(audio.sec) = <<>> THEN "lowCutRight"
                                     ELSE "copyLeft"]
    /\ UNCHANGED <<paramVars, nChanges, buffer, lastOp, nOps>>

\* the four bypasses of rightChain's low cut and the entry of the switch
LowCutRight ==
    /\ audio.pc = "lowCutRight"
    /\ chain' = bypassAll(Mem, "right").chain
    /\ audio' = [audio EXCEPT !.pc = "copyRight",
                              !.sec = switchSections(audio.cs.lowCutSlope)]
    /\ UNCHANGED <<paramVars, nChanges, heap, buffer, lastOp, nOps>>

\* *rightLowCut.get<i>().coefficients = *lowCutCoefficients[i] begins
CopyRight ==
    /\ audio.pc = "copyRight"
    /\ LET i == Head(audio.sec)
           m1 == BeginCopy(Mem, "right", <<LowCut, i>>, TmpObj(i))
       IN  /\ heap' = m1.heap
           /\ chain' = m1.chain
    /\ audio' = [audio EXCEPT !.pc = "copyRightEnd"]
    /\ UNCHANGED <<paramVars, nChanges, buffer, lastOp, nOps>>

\* ... is complete; rightLowCut.setBypassed<i>(false); after the last one,
\* break; prepareToPlay returns here
CopyRightEnd ==
    /\ audio.pc = "copyRightEnd"
    /\ LET m1 == EnableSection(Mem, "right", Head(audio.sec))
       IN  /\ heap' = m1.heap
           /\ chain' = m1.chain
    /\ audio' = IF Tail(audio.sec) # <<>>
                THEN [audio EXCEPT !.sec = Tail(@), !.pc = "copyRight"]
                ELSE IF audio.fn = "prepareToPlay"
                     THEN [audio EXCEPT !.sec = <<>>, !.pc = "idle", !.prepared = TRUE]
                     ELSE [audio EXCEPT !.sec = <<>>, !.pc = "processLeft"]
    /\ lastOp' = IF Tail(audio.sec) = <<>> /\ audio.fn = "prepareToPlay"
                 THEN [op |-> "prepareToPlay"] ELSE lastOp
    /\ UNCHANGED <<paramVars, nChanges, buffer, nOps>>

\* leftChain.process(leftContext), leftBlock = block.getSingleChannelBlock(0)
ProcessLeft ==
    /\ audio.pc = "processLeft"
    /\ LET r == ProcessChain(Mem, "left", buffer[0])
       IN  /\ chain' = r.m.chain
           /\ buffer' = [buffer EXCEPT ![0] = r.block]
    /\ audio' = [audio EXCEPT !.pc = "processRight"]
    /\ UNCHANGED <<paramVars, nChanges, heap, lastOp, nOps>>

\* rightChain.process(rightContext), rightBlock = block.getSingleChannelBlock(1);
\* processBlock returns
ProcessRight ==
    /\ audio.pc = "processRight"
    /\ LET r == ProcessChain(Mem, "right", buffer[1])
       IN  /\ chain' = r.m.chain
           /\ buffer' = [buffer EXCEPT ![1] = r.block]
    /\ audio' = [audio EXCEPT !.pc = "idle"]
    /\ lastOp' = [op |-> "processBlock"]
    /\ UNCHANGED <<paramVars, nChanges, heap, nOps>>

notProcVars == <<fifoVars, parametersChanged, timer, host, scsfVars, analyzerVars, hostVars>>

ProcNext ==
    \/ \E id \in ParamIds : \E v \in ParamValues(id) :
          SetParameter(id, v) /\ UNCHANGED notProcVars
    \/ \E sr \in SampleRates : Call_prepareToPlay(sr) /\ UNCHANGED notProcVars
    \/ PrepareLeft /\ UNCHANGED notProcVars
    \/ PrepareRight /\ UNCHANGED notProcVars
    \/ \E n \in 1..MaxBlock : Call_processBlock(n) /\ UNCHANGED notProcVars
    \/ LoadSettings /\ UNCHANGED notProcVars
    \/ PeakLeft /\ UNCHANGED notProcVars
    \/ PeakLeftEnd /\ UNCHANGED notProcVars
    \/ PeakRight /\ UNCHANGED notProcVars
    \/ PeakRightEnd /\ UNCHANGED notProcVars
    \/ LowCutLeft /\ UNCHANGED notProcVars
    \/ CopyLeft /\ UNCHANGED notProcVars
    \/ CopyLeftEnd /\ UNCHANGED notProcVars
    \/ LowCutRight /\ UNCHANGED notProcVars
    \/ CopyRight /\ UNCHANGED notProcVars
    \/ CopyRightEnd /\ UNCHANGED notProcVars
    \/ ProcessLeft /\ UNCHANGED notProcVars
    \/ ProcessRight /\ UNCHANGED notProcVars

ProcInit ==
    /\ ParamInit
    /\ ScsfInit
    /\ AnalyzerInit
    /\ HostInit
    /\ FlagInit
    /\ FifoInit
    /\ ChainInit
    /\ AudioInit
    /\ lastOp = NoOp
    /\ nOps = 0

SpecProc == ProcInit /\ [][ProcNext]_vars

\* the position of a stage in the signal path: low cut 0..3, peak, high cut 0..3
Rank(st) == 10 * st[1] + st[2]

\* the stages a sample went through, in the order it went through them
StagesOfPath(path) == [j \in 1..Len(path) |-> path[j][1]]

OrderedPath(c, sample) ==
    LET sts == StagesOfPath(sample.path)
    IN  /\ \A j \in 1..(Len(sts) - 1) : Rank(sts[j]) < Rank(sts[j + 1])
        /\ {sts[j] : j \in 1..Len(sts)} = {st \in Stages : ~chain[c][st].byp}

\* C8: when processBlock returns, each channel of the buffer holds, at every
\* index of the block, the sample that came in at that index of that channel,
\* and that sample went through the sections of the chain that are not
\* bypassed in the order low cut 0,1,2,3, then peak, then high cut 0,1,2,3
C8_FixedStageOrder ==
    lastOp.op = "processBlock" =>
        \A c \in ProcChains :
            LET block == buffer[ChannelOf(c)]
            IN  /\ Len(block) = audio.n
                /\ \A i \in 1..Len(block) :
                       /\ block[i].src = <<ChannelOf(c), i>>
                       /\ OrderedPath(c, block[i])

C8_Witness ==
    /\ lastOp.op = "processBlock"
    /\ audio.n = MaxBlock
    /\ audio.cs.lowCutSlope = SLOPE_24
    /\ Len(buffer[1][MaxBlock].path) = 7

\* what a chain owns: the coefficients, bypass flag and delay registers of
\* each of its filters
View(c) ==
    [st \in Stages |-> [coefficients |-> heap[chain[c][st].ref],
                        byp |-> chain[c][st].byp,
                        z |-> chain[c][st].z]]

\* the chain the statement at the audio thread's position works on
ActsOn(c) ==
    IF c = "left"
    THEN audio.pc \in {"prepareLeft", "peakLeft", "peakLeftEnd", "lowCutLeft",
                       "copyLeft", "copyLeftEnd", "processLeft"}
    ELSE audio.pc \in {"prepareRight", "peakRight", "peakRightEnd", "lowCutRight",
                       "copyRight", "copyRightEnd", "processRight"}

OtherChain(c) == IF c = "left" THEN "right" ELSE "left"

\* every filter of the two chains points to its own coefficient object
OwnObjects ==
    \A c \in ProcChains : \A st \in Stages : chain[c][st].ref = OwnObj(c, st)

C9_Step ==
    /\ \A c \in ProcChains : ActsOn(c) => View(OtherChain(c))' = View(OtherChain(c))
    /\ OwnObjects'

\* C9: a coefficient update, a bypass change, a prepare or the processing of a
\* block on one of leftChain and rightChain leaves the coefficients, the bypass
\* flags and the delay registers of the other as they were, and no filter of
\* one chain ever points to a coefficient object another filter points to
C9_ChainsIndependent == [][C9_Step]_vars

C9_Witness ==
    /\ audio.pc = "processRight"
    /\ View("left")[<<Peak, 0>>].z # <<>>
    /\ View("right")[<<Peak, 0>>].z = <<>>
    /\ View("left")[<<Peak, 0>>].coefficients = View("right")[<<Peak, 0>>].coefficients
    /\ View("left")[<<Peak, 0>>].coefficients # Unity

\* C10: when prepareToPlay or processBlock has returned, the high cut filter
\* of each chain has sections 0..highCutSlope active, with the low-pass
\* coefficients designed from the settings the call read, and the others
\* bypassed
C10_HighCutFollowsSettings ==
    lastOp.op \in {"prepareToPlay", "processBlock"} =>
        \A c \in ProcChains : \A i \in Sections :
            /\ chain[c][<<HighCut, i>>].byp = (i > audio.cs.highCutSlope)
            /\ i <= audio.cs.highCutSlope =>
                   heap[chain[c][<<HighCut, i>>].ref]
                       = makeHighCutFilter(audio.cs, sampleRate)[i + 1]

\* the samples a SingleChannelSampleFifo of the processor has taken in: those
\* in bufferToFill and the blocks it has offered to its audioBufferFifo
HasTakenSamples(c) == scsf[c].fifoIndex > 0 \/ hist.pushCalls > 0

\* C11: when processBlock has returned, leftChannelFIFO and rightChannelFIFO
\* have taken in the samples of the block
C11_BlockCopiedToFifos ==
    lastOp.op = "processBlock" =>
        \A c \in ProcChains : HasTakenSamples(c)

\* C12: while processBlock runs and when it has returned, the call has
\* made no heap allocation (audio.allocs counts the coefficient objects the
\* design functions have created with new since the call began)
C12_NoAllocationInCallback ==
    audio.fn = "processBlock" => audio.allocs = 0

\* every coefficient set a sample of the buffer went through is a whole one
SamplesUsedCompleteSets ==
    \A ch \in 0..1 : \A i \in 1..Len(buffer[ch]) :
        \A j \in 1..Len(buffer[ch][i].path) : Complete(buffer[ch][i].path[j][2])

C13_SwapStep ==
    \A c \in ProcChains : \A st \in Stages :
        heap'[chain[c][st].ref] = heap[chain[c][st].ref]

C25_ChannelsAlike ==
    (audio.pc = "idle" /\ audio.fn # "none") =>
        \A st \in Stages :
            /\ chain["left"][st].byp = chain["right"][st].byp
            /\ CoefOf(heap, chain, "left", st) = CoefOf(heap, chain, "right", st)

\* processBlock has returned after a parameter change, with all four low cut
\* sections of the left chain active and its peak filter redesigned
C25_Witness ==
    /\ audio.pc = "idle"
    /\ audio.fn = "processBlock"
    /\ nChanges = 1
    /\ audio.cs.lowCutSlope = SLOPE_48
    /\ \A i \in Sections : ~chain["left"][<<LowCut, i>>].byp
    /\ CoefOf(heap, chain, "left", <<Peak, 0>>) # Unity

-----------------------------------------------------------------------------
(* The parameter store behind getChainSettings: what createParameterLayout   *)
(* declares, and the values a parameter can take when it is written          *)

\* NormalisableRange<float>(start, end, interval, skew) of each parameter, in
\* the units of `params`: Hz, hundredths of a dB, hundredths for Q; a choice
\* parameter of four options ranges over the indices 0..3
RangeOf(id) ==
    CASE id \in {"LowCut_Freq", "HighCut_Freq", "Peak_Freq"} ->
             [start |-> 20, end |-> 20000, interval |-> 1]
      [] id \in {"LowCut_Slope", "HighCut_Slope"} ->
             [start |-> 0, end |-> 3, interval |-> 1]
      [] id = "Peak_Gain" -> [start |-> -2400, end |-> 2400, interval |-> 50]
      [] id = "Peak_Q" -> [start |-> 10, end |-> 1000, interval |-> 5]

\* a snap to the grid of the range that does not limit the value to the range
snapToGridOnly(r, v) ==
    r.start + r.interval * ((2 * (v - r.start) + r.interval) \div (2 * r.interval))

\* NormalisableRange::snapToLegalValue: to the nearest multiple of the
\* interval from start, then limited to start..end
snapToLegalValue(r, v) ==
    LET g == r.start + r.interval * ((2 * (v - r.start) + r.interval) \div (2 * r.interval))
    IN  IF g <= r.start THEN r.start ELSE IF g >= r.end THEN r.end ELSE g

\* the values a host offers to a parameter: below, at and above the ends of
\* its range, on and off its grid
Offered(id) ==
    LET r == RangeOf(id)
    IN  {r.start - 3 * r.interval, r.start, r.start + r.interval,
         r.end - r.interval, r.end, r.end + 3 * r.interval}
        \cup (IF r.interval > 1 THEN {r.start + r.interval + 1, r.end - 2} ELSE {})

\* the number of writes to the parameter store
MaxWrites == 2

\* a parameter is written: the store keeps the legal value nearest to the offer
StoreWrite(id, v) ==
    /\ nChanges < MaxWrites
    /\ params' = [params EXCEPT ![id] = snapToLegalValue(RangeOf(id), v)]
    /\ nChanges' = nChanges + 1
    /\ lastOp' = [op |-> "write", id |-> id, offered |-> v]
    /\ UNCHANGED <<sampleRate, nOps, chainVars, fifoVars, procVars, scsfVars,
                   analyzerVars, hostVars, parametersChanged, timer, host>>

\* getChainSettings(APVTS) is called and returns
StoreRead ==
    /\ lastOp' = [op |-> "getChainSettings", settings |-> getChainSettings(params)]
    /\ UNCHANGED <<paramVars, nChanges, nOps, chainVars, fifoVars, procVars, scsfVars,
                   analyzerVars, hostVars, parametersChanged, timer, host>>

StoreNext ==
    \/ \E id \in ParamIds : \E v \in Offered(id) : StoreWrite(id, v)
    \/ StoreRead

SpecStore == ProcInit /\ [][StoreNext]_vars

\* C14: every ChainSettings that getChainSettings returns has its three
\* frequencies in 20..20000 Hz, its gain in -24..24 dB, its Q in 0.1..10 and
\* its two slopes among SLOPE_12..SLOPE_48
C14_SettingsInRange ==
    lastOp.op = "getChainSettings" =>
        LET cs == lastOp.settings
        IN  /\ cs.lowCutFreq \in 20..20000
            /\ cs.highCutFreq \in 20..20000
            /\ cs.peakFreq \in 20..20000
            /\ cs.peakGain_dB \in -2400..2400
            /\ cs.peakQ \in 10..1000
            /\ cs.lowCutSlope \in Slopes
            /\ cs.highCutSlope \in Slopes

C14_Witness ==
    /\ lastOp.op = "getChainSettings"
    /\ nChanges = 2
    /\ lastOp.settings.peakGain_dB = 2400
    /\ lastOp.settings.highCutSlope = SLOPE_48

-----------------------------------------------------------------------------
(* getStateInformation / setStateInformation                               *)

notPersistVars ==
    <<chainVars, lastOp, nOps, fifoVars, paramVars, flagVars, procVars, scsfVars,
      analyzerVars, bus, view>>

\* getStateInformation(destData): the body is empty, destData is left as the
\* host handed it over (an empty MemoryBlock); the values to be saved are
\* remembered for the comparison
getStateInformation ==
    /\ persist.phase \in {"none", "restored"}
    /\ persist' = [destData |-> <<>>, saved |-> params, phase |-> "saved"]
    /\ UNCHANGED notPersistVars

\* setStateInformation(data, sizeInBytes) with the block of the last
\* getStateInformation: the body is empty, no parameter is written
setStateInformation(data) ==
    /\ persist.phase = "saved"
    /\ data = persist.destData
    /\ persist' = [persist EXCEPT !.phase = "restored"]
    /\ UNCHANGED notPersistVars

StateNext ==
    \/ \E id \in ParamIds : \E v \in Offered(id) : StoreWrite(id, v)
    \/ getStateInformation
    \/ setStateInformation(persist.destData)

SpecState == ProcInit /\ [][StateNext]_vars

\* C21: after getStateInformation, a change of parameters and
\* setStateInformation with the saved block, the seven parameters have the
\* values they had when the state was saved
C21_StateRoundTrip ==
    persist.phase = "restored" => \A id \in ParamIds : params[id] = persist.saved[id]

-----------------------------------------------------------------------------
(* isBusesLayoutSupported and the channels processBlock touches            *)

\* the plugin is built as an audio effect: neither a MIDI effect nor a synth
JucePlugin_IsMidiEffect == FALSE
JucePlugin_IsSynth == FALSE

\* juce::AudioChannelSet values a host may propose, and their sizes
ChannelSets == {"disabled", "mono", "stereo", "LCR", "quadraphonic"}

size(set) ==
    CASE set = "disabled" -> 0
      [] set = "mono" -> 1
      [] set = "stereo" -> 2
      [] set = "LCR" -> 3
      [] set = "quadraphonic" -> 4

BusesLayouts == [in : ChannelSets, out : ChannelSets]

\* a check of the output set alone
isBusesLayoutSupportedOutputOnly(layouts) ==
    layouts.out \in {"mono", "stereo"}

\* isBusesLayoutSupported(layouts)
isBusesLayoutSupported(layouts) ==
    IF JucePlugin_IsMidiEffect THEN TRUE
    ELSE IF layouts.out # "mono" /\ layouts.out # "stereo" THEN FALSE
    ELSE IF ~JucePlugin_IsSynth /\ layouts.out # layouts.in THEN FALSE
    ELSE TRUE

\* the number of processBlock calls in a run of the bus model
MaxBusCalls == 2

notBusVars ==
    <<chainVars, lastOp, nOps, fifoVars, paramVars, flagVars, procVars, scsfVars,
      analyzerVars, persist, view>>

\* the host asks whether a layout is supported
Bus_Query(layouts) ==
    /\ bus' = [bus EXCEPT !.query = layouts, !.asked = TRUE,
                          !.result = isBusesLayoutSupported(layouts)]
    /\ UNCHANGED notBusVars

\* the host applies the layout it asked about; only an accepted one is applied
Bus_SetLayout ==
    /\ bus.asked
    /\ bus.result
    /\ bus.layout # bus.query
    /\ bus' = [bus EXCEPT !.layout = bus.query]
    /\ UNCHANGED notBusVars

\* the channel indices processBlock uses on its buffer: buffer.clear(i, ..) for
\* i from the number of inputs up to the number of outputs, then
\* getSingleChannelBlock(0) and getSingleChannelBlock(1), which leftChain and
\* rightChain process in place
channelsTouched(totalNumInputChannels, totalNumOutputChannels) ==
    {i \in 0..4 : totalNumInputChannels <= i /\ i < totalNumOutputChannels}
        \cup {0, 1}

\* processBlock on a buffer that has the channels of the current layout
Bus_processBlock ==
    /\ bus.calls < MaxBusCalls
    /\ LET totalNumInputChannels == size(bus.layout.in)
           totalNumOutputChannels == size(bus.layout.out)
       IN  bus' = [bus EXCEPT
                     !.numChannels = IF totalNumInputChannels > totalNumOutputChannels
                                     THEN totalNumInputChannels
                                     ELSE totalNumOutputChannels,
                     !.touched = channelsTouched(totalNumInputChannels,
                                                 totalNumOutputChannels),
                     !.calls = @ + 1]
    /\ UNCHANGED notBusVars

BusNext ==
    \/ \E layouts \in BusesLayouts : Bus_Query(layouts)
    \/ Bus_SetLayout
    \/ Bus_processBlock

SpecBus == ProcInit /\ [][BusNext]_vars

\* C22: isBusesLayoutSupported answers every layout, with true exactly when
\* the main output set is mono or stereo and the main input set equals it,
\* and with false for every other layout
C22_LayoutAcceptedIffMonoOrStereoInEqOut ==
    bus.asked =>
        /\ bus.result \in BOOLEAN
        /\ bus.result = (/\ bus.query.out \in {"mono", "stereo"}
                         /\ bus.query.in = bus.query.out)

\* a layout with a supported output set and another input set was rejected
C22_Witness ==
    /\ bus.asked
    /\ bus.query = [in |-> "stereo", out |-> "mono"]
    /\ bus.result = FALSE

\* C30: under every layout that isBusesLayoutSupported accepts, processBlock
\* uses only channel indices that exist in its buffer
C30_ChannelsExist ==
    isBusesLayoutSupported(bus.layout) =>
        \A i \in bus.touched : i < bus.numChannels

-----------------------------------------------------------------------------
(* ResponseCurve: constructor, destructor and what is delivered in between  *)

\* the number of ResponseCurves constructed and of timer ticks in a run
MaxViews == 2
MaxTicks == 2

\* a removal that leaves the listener registered
removeListenerNot(listeners, id) == listeners

\* parameter->addListener(this) / parameter->removeListener(this): the set of
\* parameters that hold the ResponseCurve as listener
addListener(listeners, id) == listeners \cup {id}

removeListener(listeners, id) == listeners \ {id}

notViewVars == <<lastOp, nOps, fifoVars, procVars, scsfVars, analyzerVars, persist, bus>>

\* a ResponseCurve is constructed: the member initialisers, then the body begins
View_Construct ==
    /\ view.state \in {"none", "destroyed"}
    /\ view.lives < MaxViews
    /\ view' = [view EXCEPT !.state = "constructing", !.k = 1, !.lives = @ + 1]
    /\ parametersChanged' = FALSE
    /\ heap' = NewHeap
    /\ chain' = [c \in ChainIds |-> NewChain(c)]
    /\ UNCHANGED <<paramVars, timer, host, nChanges>>

\* the constructor's loop: parameter->addListener(this)
View_AddListener ==
    /\ view.state = "constructing"
    /\ view.k <= Len(ParamOrder)
    /\ view' = [view EXCEPT !.listeners = addListener(@, ParamOrder[view.k]),
                            !.k = @ + 1]
    /\ UNCHANGED <<paramVars, flagVars, chainVars>>

\* the end of the constructor: updateChain(); startTimerHz(60)
View_Start ==
    /\ view.state = "constructing"
    /\ view.k > Len(ParamOrder)
    /\ LET m == updateChain([heap |-> heap, chain |-> chain],
                            getChainSettings(params), sampleRate)
       IN  /\ heap' = m.heap
           /\ chain' = m.chain
    /\ view' = [view EXCEPT !.state = "alive", !.timerRunning = TRUE]
    /\ UNCHANGED <<paramVars, flagVars>>

\* a parameter gets a new value and calls the listeners it holds; if the
\* ResponseCurve is one of them, parameterValueChanged is delivered to it
View_ParameterChanged(id, v) ==
    /\ nChanges < MaxChanges
    /\ v # params[id]
    /\ params' = [params EXCEPT ![id] = v]
    /\ nChanges' = nChanges + 1
    /\ IF id \in view.listeners
       THEN /\ parametersChanged' = parameterValueChanged(parametersChanged)
            /\ view' = [view EXCEPT !.changes = @ + 1]
       ELSE UNCHANGED <<parametersChanged, view>>
    /\ UNCHANGED <<sampleRate, timer, host, chainVars>>

\* the message thread finds the timer running and delivers timerCallback;
\* constructor and destructor run on the same thread, so not inside them
View_TimerTick ==
    /\ view.timerRunning
    /\ view.state \in {"alive", "destroyed"}
    /\ view.ticks < MaxTicks
    /\ view' = [view EXCEPT !.ticks = @ + 1]
    /\ LET cas == compareAndSetBool(parametersChanged, FALSE, TRUE)
           m == IF cas.ok
                THEN updateChain([heap |-> heap, chain |-> chain],
                                 getChainSettings(params), sampleRate)
                ELSE [heap |-> heap, chain |-> chain]
       IN  /\ parametersChanged' = cas.value
           /\ heap' = m.heap
           /\ chain' = m.chain
    /\ UNCHANGED <<paramVars, timer, host, nChanges>>

\* the ResponseCurve is destroyed: the destructor body begins
View_Destroy ==
    /\ view.state = "alive"
    /\ view' = [view EXCEPT !.state = "destroying", !.k = 1]
    /\ UNCHANGED <<paramVars, flagVars, chainVars>>

\* the destructor's loop: parameter->removeListener(this)
View_RemoveListener ==
    /\ view.state = "destroying"
    /\ view.k <= Len(ParamOrder)
    /\ view' = [view EXCEPT !.listeners = removeListener(@, ParamOrder[view.k]),
                            !.k = @ + 1]
    /\ UNCHANGED <<paramVars, flagVars, chainVars>>

\* the end of the destructor: the members, then the base classes; the
\* destructor of juce::Timer stops the timer
View_DestroyBases ==
    /\ view.state = "destroying"
    /\ view.k > Len(ParamOrder)
    /\ view' = [view EXCEPT !.state = "destroyed", !.timerRunning = FALSE]
    /\ UNCHANGED <<paramVars, flagVars, chainVars>>

ViewNext ==
    \/ View_Construct /\ UNCHANGED notViewVars
    \/ View_AddListener /\ UNCHANGED notViewVars
    \/ View_Start /\ UNCHANGED notViewVars
    \/ \E id \in ParamIds : \E v \in ChangedValues(id) :
          View_ParameterChanged(id, v) /\ UNCHANGED notViewVars
    \/ View_TimerTick /\ UNCHANGED notViewVars
    \/ View_Destroy /\ UNCHANGED notViewVars
    \/ View_RemoveListener /\ UNCHANGED notViewVars
    \/ View_DestroyBases /\ UNCHANGED notViewVars

SpecView == ProcInit /\ [][ViewNext]_vars

\* from the end of the constructor to the destructor every parameter holds
\* the ResponseCurve as listener and its timer runs; after the destructor no
\* parameter holds it and the timer is stopped
C27_Registered ==
    /\ view.state = "alive" => (view.listeners = ParamIds /\ view.timerRunning)
    /\ view.state = "destroyed" => (view.listeners = {} /\ ~view.timerRunning)

\* nothing is delivered to a destroyed ResponseCurve
C27_Step ==
    view.state = "destroyed" =>
        (view'.changes = view.changes /\ view'.ticks = view.ticks)

\* C27: a ResponseCurve is listener of every parameter and its timer runs
\* from the end of its constructor until its destructor; after the destructor
\* no parameter holds it as listener and neither parameterValueChanged nor
\* timerCallback is delivered to it
C27_RegistrationsScopedToLifetime ==
    /\ []C27_Registered
    /\ [][C27_Step]_vars

\* a ResponseCurve that received both kinds of call was destroyed, and a
\* parameter was changed afterwards
C27_Witness ==
    /\ view.state = "destroyed"
    /\ view.changes = 1
    /\ view.ticks >= 1
    /\ nChanges = 2

-----------------------------------------------------------------------------
(* SingleChannelSampleFifo: prepare, update and pushNextSampleIntoFifo on top *)
(* of its audioBufferFifo, with a consumer calling getAudioBuffer             *)

\* the sizes prepare is called with
BufferSizes == {1, 2}

\* the number of calls of getAudioBuffer by a consumer that lags behind
MaxPulls == 2

\* a producer that offers the same block again until the queue takes it
afterPushRetry(ok) == IF ok THEN "store" ELSE "push"

\* auto ok = audioBufferFifo.push(bufferToFill); juce::ignoreUnused(ok): the
\* statement that follows a push, whatever it returned
afterPush(ok) == "store"

\* a test that finds the buffer full one sample early
bufferIsFullOneEarly(fifoIndex, numSamples) == fifoIndex = numSamples - 1

\* pushNextSampleIntoFifo: if (fifoIndex == bufferToFill.getNumSamples())
bufferIsFull(fifoIndex, numSamples) == fifoIndex = numSamples

notScsfVars == <<chainVars, lastOp, nOps, paramVars, flagVars, procVars, analyzerVars, hostVars>>

\* prepare(bufferSize)
Scsf_prepare(bufferSize) ==
    /\ upd.pc = "idle"
    /\ ~scsf["left"].prepared
    /\ scsf' = [scsf EXCEPT !["left"] =
                   [prepared |-> TRUE, size |-> bufferSize, fifoIndex |-> 0,
                    bufferToFill |-> [k \in 1..bufferSize |-> 0]]]
    /\ UNCHANGED <<upd, fifoVars, notScsfVars>>

\* update(buffer) is called with a buffer of n samples
Update_Call(n) ==
    /\ upd.pc = "idle"
    /\ scsf["left"].prepared
    /\ hist.pushCalls + n <= MaxPushes
    /\ upd' = [upd EXCEPT !.pc = "loop", !.i = 0, !.n = n]
    /\ UNCHANGED <<scsf, fifoVars, notScsfVars>>

\* the loop of update has gone through the buffer: update returns
Update_Return ==
    /\ upd.pc = "loop"
    /\ upd.i = upd.n
    /\ upd' = [upd EXCEPT !.pc = "idle"]
    /\ UNCHANGED <<scsf, fifoVars, notScsfVars>>

\* pushNextSampleIntoFifo(sample), fifoIndex == bufferToFill.getNumSamples()
Update_Full ==
    /\ upd.pc = "loop"
    /\ upd.i < upd.n
    /\ bufferIsFull(scsf["left"].fifoIndex, scsf["left"].size)
    /\ upd' = [upd EXCEPT !.pc = "push"]
    /\ UNCHANGED <<scsf, fifoVars, notScsfVars>>

\* pushNextSampleIntoFifo(sample), bufferToFill not yet full:
\* bufferToFill.setSample(0, fifoIndex, sample); fifoIndex++
Update_Store ==
    /\ upd.pc = "loop"
    /\ upd.i < upd.n
    /\ ~bufferIsFull(scsf["left"].fifoIndex, scsf["left"].size)
    /\ scsf' = [scsf EXCEPT !["left"].bufferToFill[scsf["left"].fifoIndex + 1] = upd.fed + 1,
                            !["left"].fifoIndex = @ + 1]
    /\ upd' = [upd EXCEPT !.i = @ + 1, !.fed = @ + 1]
    /\ UNCHANGED <<fifoVars, notScsfVars>>

\* audioBufferFifo.push(bufferToFill) is entered
Update_Push ==
    /\ upd.pc = "push"
    /\ Push_Reserve
    /\ upd' = [upd EXCEPT !.pc = "inPush"]
    /\ UNCHANGED <<scsf, notScsfVars>>

\* audioBufferFifo.push returns
Update_Pushed ==
    /\ upd.pc = "inPush"
    /\ Push_Return
    /\ upd' = [upd EXCEPT !.pc = "afterPush"]
    /\ UNCHANGED <<scsf, notScsfVars>>

\* after the push: fifoIndex = 0, then the sample goes into bufferToFill
Update_AfterPush ==
    /\ upd.pc = "afterPush"
    /\ IF afterPush(prod.ret) = "store"
       THEN /\ scsf' = [scsf EXCEPT !["left"].bufferToFill[1] = upd.fed + 1,
                                    !["left"].fifoIndex = 1]
            /\ upd' = [upd EXCEPT !.pc = "loop", !.i = @ + 1, !.fed = @ + 1]
       ELSE /\ upd' = [upd EXCEPT !.pc = "push"]
            /\ UNCHANGED scsf
    /\ UNCHANGED <<fifoVars, notScsfVars>>

ScsfNext ==
    \/ \E bufferSize \in BufferSizes : Scsf_prepare(bufferSize)
    \/ \E n \in 1..MaxBlock : Update_Call(n)
    \/ Update_Return
    \/ Update_Full
    \/ Update_Store
    \/ Update_Push
    \/ Push_StoreFirst /\ UNCHANGED <<scsfVars, notScsfVars>>
    \/ Push_StoreSecond /\ UNCHANGED <<scsfVars, notScsfVars>>
    \/ Push_Refuse /\ UNCHANGED <<scsfVars, notScsfVars>>
    \/ Update_Pushed
    \/ Update_AfterPush
    \/ hist.pullCalls < MaxPulls /\ Pull_Reserve /\ UNCHANGED <<scsfVars, notScsfVars>>
    \/ Pull_CopyFirst /\ UNCHANGED <<scsfVars, notScsfVars>>
    \/ Pull_CopySecond /\ UNCHANGED <<scsfVars, notScsfVars>>
    \/ Pull_Refuse /\ UNCHANGED <<scsfVars, notScsfVars>>
    \/ Pull_Return /\ UNCHANGED <<scsfVars, notScsfVars>>

SpecScsf == ProcInit /\ [][ScsfNext]_vars

\* a step of the thread that is in update
UpdateStep ==
    /\ upd.pc # "idle"
    /\ upd' # upd \/ prod' # prod

\* the thread in update keeps running; nothing is assumed about the consumer
SpecScsfFair == SpecScsf /\ WF_vars(ScsfNext /\ UpdateStep)

C20_Step ==
    upd.pc = "afterPush" /\ upd' # upd =>
        /\ upd'.pc = "loop"
        /\ upd'.i = upd.i + 1
        /\ scsf'["left"].fifoIndex = 1
        /\ scsf'["left"].bufferToFill[1] = upd.fed + 1

\* C20: every call of update returns, whatever the consumer does; and after a
\* push, refused or not, the next thing update does is to put the sample at
\* hand at the start of bufferToFill and go on to the next sample: the push is
\* not tried again
C20_UpdateNeverBlocks ==
    /\ (upd.pc # "idle") ~> (upd.pc = "idle")
    /\ [][C20_Step]_vars

\* update has gone on after a push that a full queue refused
C20_Witness ==
    /\ upd.pc = "loop"
    /\ prod.pc = "idle"
    /\ prod.full
    /\ ~prod.ret
    /\ scsf["left"].fifoIndex = 1
    /\ scsf["left"].bufferToFill[1] = upd.fed

\* the number of the block that is being offered to audioBufferFifo
OfferedBlock == IF upd.pc = "push" THEN hist.pushCalls + 1 ELSE hist.pushCalls

\* fifoIndex is within 0..B, and a block that is offered to the queue holds
\* the next B samples of the stream in arrival order (samples are numbered
\* from 1 in the order update receives them)
C29_Blocks ==
    scsf["left"].prepared =>
        /\ scsf["left"].fifoIndex \in 0..scsf["left"].size
        /\ upd.pc \in {"push", "inPush"} =>
              /\ scsf["left"].fifoIndex = scsf["left"].size
              /\ upd.fed = OfferedBlock * scsf["left"].size
              /\ scsf["left"].bufferToFill =
                    [k \in 1..scsf["left"].size |->
                        (OfferedBlock - 1) * scsf["left"].size + k]

\* a sample taken from the stream is stored in bufferToFill at an index below
\* B, the one fifoIndex then stands behind
C29_Step ==
    upd'.fed = upd.fed + 1 =>
        /\ scsf'["left"].fifoIndex \in 1..scsf["left"].size
        /\ scsf'["left"].bufferToFill[scsf'["left"].fifoIndex] = upd'.fed

\* C29: for a SingleChannelSampleFifo prepared with block size B > 0, fifoIndex
\* stays in 0..B, every write into bufferToFill is at an index below B, and the
\* blocks offered to the queue partition the sample stream: the j-th block
\* holds the samples (j-1)*B .. j*B-1 in arrival order, none twice, none skipped
C29_BlocksPartitionStream ==
    /\ []C29_Blocks
    /\ [][C29_Step]_vars

\* the third block of two samples is about to be offered, in a later call of
\* update than the first
C29_Witness ==
    /\ upd.pc = "push"
    /\ scsf["left"].size = 2
    /\ hist.pushCalls = 2
    /\ scsf["left"].bufferToFill = <<5, 6>>
    /\ upd.i < upd.fed

-----------------------------------------------------------------------------
(* FFTDataGenerator: changeOrder, produceFFTDataForRendering, getFFTData     *)

ORDER_2048 == 11
ORDER_4096 == 12
ORDER_8192 == 13

FFTOrders == {ORDER_2048, ORDER_4096, ORDER_8192}

\* getFFTSize: 1 << order
getFFTSize(order) == 2 ^ order

\* the number of frames produced in a run
MaxFrames == 3

notAnalyzerVars ==
    <<chainVars, lastOp, nOps, fifoVars, paramVars, flagVars, procVars, scsfVars,
      hostVars>>

\* a vector of floats is described by its size, by the number of leading
\* entries that hold decibel values, and by the order it was computed with

\* changeOrder(newOrder): fftData becomes fftSize * 2 zeros, and
\* fftDataFIFO.prepare(fftData.size()) clears and resizes every vector of the
\* queue, those waiting to be read included
changeOrder(newOrder) ==
    LET fftSize == getFFTSize(newOrder)
        zeros == [size |-> fftSize * 2, numDecibels |-> 0, order |-> newOrder]
    IN  /\ fft' = [fft EXCEPT !.order = newOrder,
                              !.fftData = zeros,
                              !.slotSize = fftSize * 2,
                              !.frames = [i \in 1..Len(fft.frames) |-> zeros]]
        /\ UNCHANGED <<pathGen, notAnalyzerVars>>

\* produceFFTDataForRendering(audioData, negativeInf) on a buffer of at least
\* fftSize samples: window, transform, the first numBins entries normalised and
\* converted to decibels, then fftDataFIFO.push(fftData)
produceFFTDataForRendering ==
    LET fftSize == getFFTSize(fft.order)
        numBins == fftSize \div 2
        frame == [size |-> fft.fftData.size, numDecibels |-> numBins,
                  order |-> fft.order]
    IN  /\ fft.order \in FFTOrders
        /\ fft.produced < MaxFrames
        /\ fft' = [fft EXCEPT !.fftData = frame,
                              !.produced = @ + 1,
                              !.frames = IF Len(@) < Capacity - 1
                                         THEN Append(@, frame) ELSE @]
        /\ UNCHANGED <<pathGen, notAnalyzerVars>>

\* getFFTData(fftData): fftDataFIFO.pull
getFFTData ==
    /\ fft.frames # <<>>
    /\ fft' = [fft EXCEPT !.frames = Tail(@), !.pulled = <<Head(fft.frames)>>]
    /\ UNCHANGED <<pathGen, notAnalyzerVars>>

FFTNext ==
    \/ \E newOrder \in FFTOrders : changeOrder(newOrder)
    \/ produceFFTDataForRendering
    \/ getFFTData

SpecFFT == ProcInit /\ [][FFTNext]_vars

\* the frames that produceFFTDataForRendering pushed and that are in the queue
\* or were pulled from it as they were pushed
PushedFrames ==
    {f \in {fft.frames[i] : i \in 1..Len(fft.frames)}
           \cup {fft.pulled[i] : i \in 1..Len(fft.pulled)} : f.numDecibels > 0}

\* C18: every frame pushed into fftDataFIFO has one entry per frequency bin:
\* its length is the transform size / 2, and all its entries are decibels
C18_FrameLengthIsHalfSize ==
    \A f \in PushedFrames :
        /\ f.size = getFFTSize(f.order) \div 2
        /\ f.numDecibels = f.size

\* C28: after changeOrder (or SingleChannelSampleFifo::prepare) the queue
\* holds nothing to read, so every block waiting in it was pushed after the
\* last such call: none is a block the call found unread and cleared
C28_NoStaleBlocks ==
    \A i \in 1..Len(fft.frames) :
        /\ fft.frames[i].numDecibels > 0
        /\ fft.frames[i].order = fft.order

-----------------------------------------------------------------------------
(* AnalyzerPathGenerator::generatePath                                       *)

\* a float is a number, not-a-number or an infinity
Num(n) == <<"num", n>>
NaN == <<"nan", 0>>
Inf == <<"inf", 0>>

NonFinite == {NaN, Inf}

\* the values of renderData in the model: the floor, 0 dB, and the two kinds
\* of value that are not finite
RenderValues == {Num(-48), Num(0), NaN, Inf}

\* the transform sizes generatePath is called with in the model
PathFFTSizes == {4, 8}

\* the lambda `map`: jmap(v, negativeInf, 0.f, bottom, top), which is
\* bottom + (top - bottom) * (v - negativeInf) / (0 - negativeInf)
map(v, negativeInf, bottom, top) ==
    IF v \in NonFinite
    THEN IF v = Inf /\ top = bottom THEN NaN ELSE v
    ELSE Num(bottom + ((top - bottom) * (v[2] - negativeInf)) \div (0 - negativeInf))

\* the bins the loop visits: binNum = 1; binNum < numBins; binNum += pathResolution
RECURSIVE LoopBins(_, _)
LoopBins(binNum, numBins) ==
    IF binNum < numBins THEN <<binNum>> \o LoopBins(binNum + 2, numBins) ELSE <<>>

\* the path after the loop has visited the bins `bins`: a lineTo for every bin
\* whose y is a number
RECURSIVE LineTos(_, _, _, _, _, _)
LineTos(p, bins, renderData, negativeInf, bottom, top) ==
    IF bins = <<>> THEN p
    ELSE LET y == map(renderData[Head(bins) + 1], negativeInf, bottom, top)
         IN  LineTos(IF y \notin NonFinite
                     THEN Append(p, [bin |-> Head(bins), y |-> y]) ELSE p,
                     Tail(bins), renderData, negativeInf, bottom, top)

\* the path generatePath builds: p.startNewSubPath(0, map(renderData[0])), the
\* jassert on that y being compiled out, then the loop
PathOf(renderData, fftSize, negativeInf, bottom, top) ==
    LET numBins == fftSize \div 2
        y == map(renderData[1], negativeInf, bottom, top)
    IN  LineTos(<<[bin |-> 0, y |-> y]>>, LoopBins(1, numBins), renderData,
                negativeInf, bottom, top)

\* the number of calls of generatePath in a run
MaxPaths == 2

\* generatePath(renderData, fftBounds, fftSize, binWidth, negativeInf) on a
\* rectangle with top 0 and the given height; it ends with pathFIFO.push(p)
generatePath(renderData, fftSize, bottom) ==
    /\ pathGen.calls < MaxPaths
    /\ pathGen' = IF pathGen.numReady < Capacity - 1
                  THEN [calls |-> pathGen.calls + 1,
                        numReady |-> pathGen.numReady + 1,
                        pushed |-> <<[path |-> PathOf(renderData, fftSize, -48, bottom, 0),
                                     renderData |-> renderData]>>]
                  ELSE [pathGen EXCEPT !.calls = @ + 1]
    /\ UNCHANGED <<fft, notAnalyzerVars>>

\* getPath(path): pathFIFO.pull
getPath ==
    /\ pathGen.numReady > 0
    /\ pathGen' = [pathGen EXCEPT !.numReady = @ - 1]
    /\ UNCHANGED <<fft, notAnalyzerVars>>

PathNext ==
    \/ \E fftSize \in PathFFTSizes :
          \E renderData \in [1..(fftSize \div 2) -> RenderValues] :
              \E bottom \in {0, 100} : generatePath(renderData, fftSize, bottom)
    \/ getPath

SpecPath == ProcInit /\ [][PathNext]_vars

\* C19: no path that generatePath has pushed has a point whose y is
\* not-a-number or infinite, whichever bin the point comes from
C19_NoNonFinitePoint ==
    \A k \in 1..Len(pathGen.pushed) :
        \A j \in 1..Len(pathGen.pushed[k].path) :
            pathGen.pushed[k].path[j].y \notin NonFinite

-----------------------------------------------------------------------------
(* updateCutFilter as a function of its inputs: any prior bypass state of   *)
(* the cut filter, any slope, either kind of design.                        *)

\* the number of updateCutFilter calls in a run
MaxCutOps == 2

CutInit ==
    /\ FifoInit
    /\ ScsfInit
    /\ AnalyzerInit
    /\ HostInit
    /\ AudioInit
    /\ ParamInit
    /\ FlagInit
    /\ heap = NewHeap
    /\ \E p \in {LowCut, HighCut}, b \in [Sections -> BOOLEAN] :
          chain = [c \in ChainIds |->
                     [st \in Stages |->
                        [NewChain(c)[st] EXCEPT
                           !.byp = (c = "mono" /\ st[1] = p /\ b[st[2]])]]]
    /\ lastOp = NoOp
    /\ nOps = 0

CutUpdate(pos, freq, slope, sr) ==
    LET cs == [lowCutFreq |-> freq, lowCutSlope |-> slope,
               highCutFreq |-> freq, highCutSlope |-> slope]
        coeffs == IF pos = LowCut THEN makeLowCutFilter(cs, sr)
                                  ELSE makeHighCutFilter(cs, sr)
        m0 == [heap |-> Allocate(heap, coeffs), chain |-> chain]
        m1 == updateCutFilter(m0, "mono", pos, slope)
    IN  /\ nOps < MaxCutOps
        /\ nOps' = nOps + 1
        /\ heap' = m1.heap
        /\ chain' = m1.chain
        /\ lastOp' = [op |-> "updateCutFilter", c |-> "mono", pos |-> pos,
                      slope |-> slope, prior |-> Bypass(chain, "mono", pos),
                      designed |-> coeffs]
        /\ UNCHANGED <<fifoVars, paramVars, flagVars, procVars, scsfVars, analyzerVars, hostVars>>

\* the low cut update as prepareToPlay and processBlock write it out for
\* leftChain: the order, the design, the four bypasses and the switch
CutInline(freq, slope, sr) ==
    LET lowCutFilterOrder == 2 * (slope + 1)
        coeffs == Butterworth("HP", freq, sr, lowCutFilterOrder)
        m0 == [heap |-> Allocate(heap, coeffs), chain |-> chain]
        m1 == lowCutSwitch(m0, "left", slope)
    IN  /\ nOps < MaxCutOps
        /\ nOps' = nOps + 1
        /\ heap' = m1.heap
        /\ chain' = m1.chain
        /\ lastOp' = [op |-> "lowCutSwitch", c |-> "left", pos |-> LowCut,
                      slope |-> slope, prior |-> Bypass(chain, "left", LowCut),
                      designed |-> coeffs]
        /\ UNCHANGED <<fifoVars, paramVars, flagVars, procVars, scsfVars, analyzerVars, hostVars>>

CutNext ==
    \/ \E pos \in {LowCut, HighCut}, freq \in FreqValues, slope \in Slopes :
          CutUpdate(pos, freq, slope, 44100)
    \/ \E freq \in FreqValues, slope \in Slopes :
          CutInline(freq, slope, 44100)

SpecCut == CutInit /\ [][CutNext]_vars

\* C1: after updateCutFilter(filter, coefficients, S) returns, whatever the bypass
\* flags of the four sections were before, section i is bypassed exactly when
\* i > S: the S+1 sections 0..S are active and the sections S+1..3 are bypassed.
C1_ActiveSections ==
    lastOp.op = "updateCutFilter" =>
        /\ \A i \in Sections :
              chain["mono"][<<lastOp.pos, i>>].byp = (i > lastOp.slope)
        /\ Cardinality({i \in Sections : ~chain["mono"][<<lastOp.pos, i>>].byp})
              = lastOp.slope + 1

CutOps == {"updateCutFilter", "lowCutSwitch"}

\* the order a slope stands for: 12, 24, 36, 48 dB/octave -> 2, 4, 6, 8
OrderOfSlope(s) ==
    CASE s = SLOPE_12 -> 2 [] s = SLOPE_24 -> 4 [] s = SLOPE_36 -> 6 [] s = SLOPE_48 -> 8

\* C15: the order handed to the Butterworth design by makeLowCutFilter, by
\* makeHighCutFilter and by the low cut code of prepareToPlay and processBlock
\* is 2 * (slope + 1), that is 2, 4, 6, 8 for the four slopes
C15_OrderIsTwiceSlopePlusOne ==
    lastOp.op \in CutOps =>
        /\ Len(lastOp.designed) >= 1
        /\ \A i \in 1..Len(lastOp.designed) :
               /\ lastOp.designed[i][3] = 2 * (lastOp.slope + 1)
               /\ lastOp.designed[i][3] = OrderOfSlope(lastOp.slope)

C15_Witness ==
    /\ lastOp.op = "lowCutSwitch"
    /\ lastOp.slope = SLOPE_36
    /\ lastOp.designed[1][3] = 6
    /\ nOps = 2

\* C16: the designed sequence has slope + 1 sections, and every section the
\* update has assigned got an element of that sequence: no index read is at or
\* beyond its length
C16_ReadsWithinLength ==
    lastOp.op \in CutOps =>
        /\ Len(lastOp.designed) = lastOp.slope + 1
        /\ \A i \in Sections :
               ~chain[lastOp.c][<<lastOp.pos, i>>].byp =>
                   /\ i < Len(lastOp.designed)
                   /\ CoefOf(heap, chain, lastOp.c, <<lastOp.pos, i>>)
                          = lastOp.designed[i + 1]

C16_Witness ==
    /\ lastOp.op = "updateCutFilter"
    /\ lastOp.pos = LowCut
    /\ lastOp.slope = SLOPE_48
    /\ Len(lastOp.designed) = 4
    /\ CoefOf(heap, chain, "mono", <<LowCut, 3>>) = lastOp.designed[4]

\* C17: after a cut filter update every one of the four sections, bypassed
\* ones included, holds coefficients of the design just made or the ones it
\* was constructed with, never those of an earlier design
C17_NoStaleSection ==
    lastOp.op \in CutOps =>
        \A i \in Sections :
            LET held == CoefOf(heap, chain, lastOp.c, <<lastOp.pos, i>>)
            IN  held # Unity =>
                    /\ held[2] = lastOp.designed[1][2]
                    /\ held[3] = lastOp.designed[1][3]

\* the four sections of the low cut filter of a chain: bypass flag and
\* coefficient values
LowCutSections(m, c) ==
    [i \in Sections |-> [byp |-> m.chain[c][<<LowCut, i>>].byp,
                         coefficients |-> CoefOf(m.heap, m.chain, c, <<LowCut, i>>)]]

\* C24: from the same filter state, for every slope and every newly designed
\* coefficient sequence that has a section for each index the slope reads,
\* the cascading switch of updateCutFilter and the switch with break of
\* prepareToPlay and processBlock leave the same bypass flag and the same
\* coefficient values in each of the four sections
C24_SwitchesEquivalent ==
    \A c \in {"mono", "left"}, slope \in Slopes, designed \in Slopes :
        designed >= slope =>
            LET coeffs == Butterworth("HP", 1000, 44100, 2 * (designed + 1))
                m == [heap |-> Allocate(heap, coeffs), chain |-> chain]
            IN  LowCutSections(updateCutFilter(m, c, LowCut, slope), c)
                    = LowCutSections(lowCutSwitch(m, c, slope), c)

\* both switches have run before, on filters that now differ in the sections
\* that are active and in the coefficients they hold
C24_Witness ==
    /\ nOps = 2
    /\ lastOp.op = "lowCutSwitch"
    /\ lastOp.slope = SLOPE_36
    /\ Bypass(chain, "mono", LowCut) = [i \in Sections |-> i > SLOPE_24]
    /\ CoefOf(heap, chain, "mono", <<LowCut, 1>>) # CoefOf(heap, chain, "left", <<LowCut, 1>>)


\* a call with slope SLOPE_24 on a filter whose section 0 was bypassed and whose
\* section 3 was active
C1_Witness ==
    /\ lastOp.op = "updateCutFilter"
    /\ lastOp.slope = SLOPE_24
    /\ lastOp.prior[0]
    /\ ~lastOp.prior[3]

====
